---------------------------- MODULE Spec2Model ----------------------------
(***************************************************************************)
(* A model of the transport/connection layer and the command-execution     *)
(* orchestrator of MCPForUnity/Server~:                                    *)
(*                                                                         *)
(*   transport/legacy/uds_connection.py    UnityUdsConnection              *)
(*   transport/legacy/pipe_connection.py   UnityPipeConnection             *)
(*   services/tools/custom_tool_service.py CustomToolService               *)
(*   transport/unity_transport.py          send_with_unity_instance        *)
(*                                                                         *)
(* Spec      one Connection object shared by concurrent caller threads,    *)
(*           one step per shared access or I/O call of connect(),          *)
(*           disconnect() and send_command().                              *)
(* SpecWire  the bytes of one exchange: both variants make the same calls   *)
(*           against hosts that answer alike, a call per step.             *)
(* SpecExec  execute_tool() up to its dispatch, one step per lookup, with   *)
(*           registrations and the clock moving in between.                *)
(* SpecPoll  _poll_until_complete(), one step per await, the clock moving   *)
(*           with each sleep and each dispatch; SpecPollFair is SpecPoll   *)
(*           with every sleep and every dispatch coming to its end.        *)
(* SpecReg   POST /register-tools: batches of definitions put in the       *)
(*           registry, a request per step.                                 *)
(* SpecRes   resolve_project_id_for_unity_instance() on instance tokens,   *)
(*           with registrations filling the hash table in between.         *)
(* SpecList  list_registered_tools() next to another caller of             *)
(*           _sync_all_unity_tools(), one step per await.                  *)
(* SpecSend  send_with_unity_instance() on calls of every shape, under     *)
(*           each value of the transport setting.                          *)
(* SpecSync  one caller of _sync_all_unity_tools() over several instances, *)
(*           a step per await, with batch registrations in between.        *)
(* SpecRun   execute_tool() from its dispatch on: the first command, then  *)
(*           the return or the poll loop, with the parameter objects.      *)
(***************************************************************************)
EXTENDS Integers, Sequences, FiniteSets, TLC

VARIABLES
    \* ---- one Connection object and its caller threads (Spec) ----
    variant,   \* "uds" (UnityUdsConnection) or "pipe" (UnityPipeConnection)
    sock,      \* the handle field (sock / pipe_handle): 0 is None, else a channel
    chans,     \* every channel the threads opened so far: its OS-level state
    nchan,     \* how many channels were opened so far
    lock,      \* _io_lock: 0 when free, else the thread holding it
    pc,        \* each thread's position
    op,        \* the public method each thread is running
    cret,      \* what the thread's connect() returned
    err,       \* the exception the thread's call raises ("none": it returns)
    why,       \* what happened to make it raise: "absent" (no endpoint), "io"
               \* (broken pipe, reset, zero or short read), "short" (body cut
               \* short), "nohandle", "status" (status "error" reply), "decode"
    failCh,    \* the channel an I/O step of the exchange failed on (0: none)
    conns,     \* connect() calls made by the thread's running send_command
    writes,    \* successful writes of the thread's running send_command
    \* ---- the bytes on the wire, both variants side by side (SpecWire) ----
    wconn,     \* per variant: the handle field is set
    wout,      \* per variant: how the last call ended
    wreq,      \* the last send_command's arguments
    wsent,     \* per variant: the bytes the last send_command wrote
    wdeliv,    \* the host's answer to it: its frame, cut into chunks
    \* ---- CustomToolService and one execute_tool() call (SpecExec) ----
    project_tools,   \* _project_tools: for each registered <<project, tool>>
                     \* pair, the definition stored under it
    last_sync_time,  \* _last_sync_time, in seconds
    clock,           \* time.time(), in seconds
    epc,             \* the position of the execute_tool() call
    attempt,         \* 1: its first get_tool_definition(); 2: the one after
                     \* the forced sync
    ecall,           \* its arguments
    definition,      \* the definition it holds ("none": None)
    lookups,         \* what it looked up so far, in order
    sent,            \* the commands it sent to the host so far, in order
    result,          \* how it ended
    \* ---- one _poll_until_complete() call (SpecPoll) ----
    ppc,             \* its position
    pnow,            \* time.time(), in tenths of a second
    deadline,        \* its deadline, in tenths of a second
    response,        \* its current response
    poll_interval,   \* the interval it last computed, in tenths of a second
    last_raw,        \* the last response the transport handed back
    presult,         \* what it returned
    pcall,           \* the execute_tool() call around it: tool, params, ...
    pheap,           \* the parameter dicts of that call, by object
    pcmd,            \* the last command dispatched for the tool
    ndispatch,       \* how many were dispatched: 0, 1, or 2 for two or more
    \* ---- POST /register-tools (SpecReg) ----
    hash_to_project, \* _hash_to_project: lowercased project hash -> project id
    reg_request,     \* the payload of the request being answered
    reg_response,    \* the response to it
    \* ---- resolve_project_id_for_unity_instance() (SpecRes) ----
    res_call,        \* the running call: its token and what discovery does
    resolved,        \* what it returns
    \* ---- callers of _sync_all_unity_tools() (SpecList) ----
    spc,             \* the position of each of the two callers
    scall,           \* each caller's sync call: its force flag and what it did
    lproject,        \* the project list_registered_tools() was called with
    lresult,         \* what it returned
    \* ---- send_with_unity_instance() (SpecSend) ----
    transport_env,   \* os.environ["UNITY_MCP_TRANSPORT"]: None when unset
    tcall,           \* the running call's arguments
    tout,            \* what the call did: what it raised or what it sent
    \* ---- one _sync_all_unity_tools() call (SpecSync) ----
    ypc,             \* its position
    ycall,           \* its force flag and what discovery gave
    yi,              \* the instance the loop of 190 is at
    yreply,          \* the outcome of the query the call waits for
    yqueried,        \* the instances queried so far
    yfailed,         \* the instances whose query or reply failed
    yout             \* how the call ended

connVars == <<variant, sock, chans, nchan, lock, pc, op, cret, err, why,
              failCh, conns, writes>>

wireVars == <<wconn, wout, wreq, wsent, wdeliv>>

execVars == <<project_tools, last_sync_time, clock, epc, attempt, ecall,
              definition, lookups, sent, result>>

pollVars == <<ppc, pnow, deadline, response, poll_interval, last_raw, presult,
              pcall, pheap, pcmd, ndispatch>>

regVars == <<hash_to_project, reg_request, reg_response>>

resVars == <<res_call, resolved>>

listVars == <<spc, scall, lproject, lresult>>

sendVars == <<transport_env, tcall, tout>>

syncVars == <<ypc, ycall, yi, yreply, yqueried, yfailed, yout>>

vars == <<connVars, wireVars, execVars, pollVars, regVars, resVars, listVars,
          sendVars, syncVars>>

\* Each part of the model leaves the other parts' variables alone.
ConnOnly == UNCHANGED <<wireVars, execVars, pollVars, regVars, resVars, listVars,
                       sendVars, syncVars>>
WireOnly == UNCHANGED <<connVars, execVars, pollVars, regVars, resVars, listVars,
                       sendVars, syncVars>>
ExecOnly == UNCHANGED <<connVars, wireVars, pollVars, regVars, resVars, listVars,
                       sendVars, syncVars>>
PollOnly == UNCHANGED <<connVars, wireVars, execVars, regVars, resVars, listVars,
                       sendVars, syncVars>>
RegOnly == UNCHANGED <<connVars, wireVars, pollVars, resVars, listVars,
                       sendVars, syncVars>>
ResOnly == UNCHANGED <<connVars, wireVars, execVars, pollVars, regVars, listVars,
                       sendVars, syncVars>>
ListOnly == UNCHANGED <<connVars, wireVars, pollVars, regVars, resVars,
                        sendVars, syncVars>>
SendOnly == UNCHANGED <<connVars, wireVars, execVars, pollVars, regVars,
                        resVars, listVars,
                       syncVars>>

---------------------------------------------------------------------------
(* Bounds of the model.                                                    *)

NumCallers == 2     \* caller threads sharing the Connection
MaxChans   == 2     \* channels the host accepts before its endpoint goes away
MaxSplits  == 1     \* places where the host's answer is split into chunks
MaxClock   == 11    \* the clock stops here (seconds)
MaxBatch   == 2     \* tools in one registration payload
MaxSendTime == 3    \* the longest a poll dispatch takes (seconds)
MaxInstances == 2   \* instances one discovery finds
MaxListed  == 2     \* descriptors in one instance's reply

Callers  == 1..NumCallers
Channels == 1..MaxChans

---------------------------------------------------------------------------
(* Channels.  st: "unused" | "created" (socket() made, not connected)      *)
(*                | "connected" | "closed" (close()/CloseHandle() done).   *)
(* banner: the host's welcome line is still unread in the stream.          *)
(* wrote:  request bytes were written to the channel.                      *)
(* hdrBanner: a response header was read while the banner was unread.      *)

NoChan == [st |-> "unused", banner |-> FALSE, wrote |-> FALSE, hdrBanner |-> FALSE]

ConnInit ==
    /\ variant \in {"uds", "pipe"}
    /\ sock = 0
    /\ chans = [c \in Channels |-> NoChan]
    /\ nchan = 0
    /\ lock = 0
    /\ pc = [t \in Callers |-> "idle"]
    /\ op = [t \in Callers |-> "none"]
    /\ cret = [t \in Callers |-> FALSE]
    /\ err = [t \in Callers |-> "none"]
    /\ why = [t \in Callers |-> "none"]
    /\ failCh = [t \in Callers |-> 0]
    /\ conns = [t \in Callers |-> 0]
    /\ writes = [t \in Callers |-> 0]

Goto(t, l) == pc' = [pc EXCEPT ![t] = l]

\* A public call starts: send_command, connect or disconnect.
Call(t) ==
    /\ ConnOnly
    /\ pc[t] = "idle"
    /\ \E o \in {"send", "connect", "disconnect"} :
         /\ op' = [op EXCEPT ![t] = o]
         /\ Goto(t, CASE o = "send" -> "s_chk"
                      [] o = "connect" -> "c_chk"
                      [] OTHER -> "d_chk")
    /\ UNCHANGED <<variant, sock, chans, nchan, lock,
                   cret, err, why, failCh, conns, writes>>

\* The call has returned or raised; the caller takes the outcome.
Return(t) ==
    /\ ConnOnly
    /\ pc[t] = "done"
    /\ Goto(t, "idle")
    /\ op' = [op EXCEPT ![t] = "none"]
    /\ cret' = [cret EXCEPT ![t] = FALSE]
    /\ err' = [err EXCEPT ![t] = "none"]
    /\ why' = [why EXCEPT ![t] = "none"]
    /\ failCh' = [failCh EXCEPT ![t] = 0]
    /\ conns' = [conns EXCEPT ![t] = 0]
    /\ writes' = [writes EXCEPT ![t] = 0]
    /\ UNCHANGED <<variant, sock, chans, nchan, lock>>


---------------------------------------------------------------------------
(* connect(): uds_connection.py 26-48, pipe_connection.py 33-70.           *)

\* A send_command that tries connect() again when it returned False.
ConnectReturn_Retry(t, r) ==
    /\ cret' = [cret EXCEPT ![t] = r]
    /\ UNCHANGED <<err, why>>
    /\ Goto(t, IF op[t] = "send" THEN (IF r THEN "s_lock" ELSE "s_chk") ELSE "done")

\* connect() returns r.  Called from send_command (uds 61-63, pipe 81-83):
\* `if not self.connect(): raise ConnectionError("Not connected ...")`,
\* else the payload is built and the thread goes for the lock.
ConnectReturn(t, r) ==
    /\ cret' = [cret EXCEPT ![t] = r]
    /\ IF op[t] = "send" /\ ~r
         THEN /\ err' = [err EXCEPT ![t] = "ConnectionError"]
              /\ why' = [why EXCEPT ![t] = "absent"]
         ELSE UNCHANGED <<err, why>>
    /\ Goto(t, IF op[t] = "send" /\ r THEN "s_lock" ELSE "done")

\* `if self.sock: return True`  (uds 27, pipe 38)
ConnectCheck(t) ==
    /\ ConnOnly
    /\ pc[t] = "c_chk"
    /\ IF sock # 0
         THEN ConnectReturn(t, TRUE)
         ELSE /\ Goto(t, "c_wait")
              /\ UNCHANGED <<cret, err, why>>
    /\ UNCHANGED <<variant, sock, chans, nchan, lock, op, failCh, conns, writes>>

\* uds 30: os.path.exists(socket_path); pipe 43-49: WaitNamedPipe, where
\* winerror 2 returns False and any other error reaches the handler.
ConnectWait(t) ==
    /\ ConnOnly
    /\ pc[t] = "c_wait"
    /\ \/ /\ nchan < MaxChans                      \* the endpoint is there
          /\ Goto(t, "c_open")
          /\ UNCHANGED <<cret, err, why>>
       \/ ConnectReturn(t, FALSE)                  \* the endpoint is absent
       \/ /\ variant = "pipe"                      \* WaitNamedPipe: other error
          /\ Goto(t, "c_exc")
          /\ UNCHANGED <<cret, err, why>>
    /\ UNCHANGED <<variant, sock, chans, nchan, lock, op, failCh, conns, writes>>

\* uds 34: self.sock = socket.socket(...), a socket not yet connected;
\* pipe 51: self.pipe_handle = CreateFile(...), connected when it returns.
\* The host writes its welcome line on accepting the connection.
ConnectOpen(t) ==
    /\ ConnOnly
    /\ pc[t] = "c_open"
    /\ \/ /\ nchan < MaxChans
          /\ nchan' = nchan + 1
          /\ sock' = nchan + 1
          /\ chans' = [chans EXCEPT ![nchan + 1] =
                         IF variant = "uds"
                           THEN [NoChan EXCEPT !.st = "created"]
                           ELSE [NoChan EXCEPT !.st = "connected", !.banner = TRUE]]
          /\ Goto(t, IF variant = "uds" THEN "c_conn" ELSE "c_banner")
       \/ /\ variant = "pipe" \/ nchan >= MaxChans   \* the open fails
          /\ Goto(t, "c_exc")
          /\ UNCHANGED <<sock, chans, nchan>>
    /\ UNCHANGED <<variant, lock, op, cret, err, why, failCh, conns, writes>>

\* uds 35: self.sock.connect(self.socket_path), on whatever self.sock is now.
ConnectConn(t) ==
    /\ ConnOnly
    /\ pc[t] = "c_conn"
    /\ \/ /\ sock # 0
          /\ chans[sock].st = "created"
          /\ chans' = [chans EXCEPT ![sock].st = "connected", ![sock].banner = TRUE]
          /\ Goto(t, "c_banner")
       \/ /\ Goto(t, "c_exc")         \* None, refused, already connected, closed
          /\ UNCHANGED chans
    /\ UNCHANGED <<variant, sock, nchan, lock, op,
                   cret, err, why, failCh, conns, writes>>

\* uds 41: self.sock.recv(64); pipe 64: ReadFile(self.pipe_handle, 64).
\* One read of up to 64 bytes, on whatever the handle field is now.  With the
\* banner already taken by another thread the read returns on the next bytes
\* of the stream or on its end.
ConnectBanner(t) ==
    /\ ConnOnly
    /\ pc[t] = "c_banner"
    /\ \/ /\ sock # 0
          /\ chans[sock].st = "connected"
          /\ chans' = [chans EXCEPT ![sock].banner = FALSE]
          /\ ConnectReturn(t, TRUE)
       \/ /\ Goto(t, "c_exc")         \* None, not connected, closed, reset
          /\ UNCHANGED <<chans, cret, err, why>>
    /\ UNCHANGED <<variant, sock, nchan, lock, op, failCh, conns, writes>>

\* uds 45-48, pipe 67-70: `self.sock = None; return False` (nothing is closed).
ConnectExcept(t) ==
    /\ ConnOnly
    /\ pc[t] = "c_exc"
    /\ sock' = 0
    /\ ConnectReturn(t, FALSE)
    /\ UNCHANGED <<variant, chans, nchan, lock, op, failCh, conns, writes>>

---------------------------------------------------------------------------
(* disconnect(): uds_connection.py 50-56, pipe_connection.py 72-78.        *)

AfterDisconnect(t) == IF op[t] = "send" THEN "s_raise" ELSE "done"

\* `if self.sock:`  (uds 51, pipe 73)
DisconnectCheck(t) ==
    /\ ConnOnly
    /\ pc[t] = "d_chk"
    /\ Goto(t, IF sock # 0 THEN "d_close" ELSE AfterDisconnect(t))
    /\ UNCHANGED <<variant, sock, chans, nchan, lock, op,
                   cret, err, why, failCh, conns, writes>>

\* `self.sock.close()` under try/except-pass (uds 52-55, pipe 74-77): closes
\* whatever the handle field is now; on None the exception is swallowed.
\* A closed channel has no stream left.
DisconnectClose(t) ==
    /\ ConnOnly
    /\ pc[t] = "d_close"
    /\ chans' = IF sock # 0
                  THEN [chans EXCEPT ![sock] = [NoChan EXCEPT !.st = "closed"]]
                  ELSE chans
    /\ Goto(t, "d_clear")
    /\ UNCHANGED <<variant, sock, nchan, lock, op,
                   cret, err, why, failCh, conns, writes>>

\* `self.sock = None`  (uds 56, pipe 78)
DisconnectClear(t) ==
    /\ ConnOnly
    /\ pc[t] = "d_clear"
    /\ sock' = 0
    /\ Goto(t, AfterDisconnect(t))
    /\ UNCHANGED <<variant, chans, nchan, lock, op,
                   cret, err, why, failCh, conns, writes>>

---------------------------------------------------------------------------
(* send_command(): uds_connection.py 58-104, pipe_connection.py 80-130.    *)

\* `if not self.sock: if not self.connect(): ...`  (uds 61-62, pipe 81-82)
SendCheck(t) ==
    /\ ConnOnly
    /\ pc[t] = "s_chk"
    /\ IF sock # 0
         THEN /\ Goto(t, "s_lock")
              /\ UNCHANGED conns
         ELSE /\ Goto(t, "c_chk")
              /\ conns' = [conns EXCEPT ![t] = @ + 1]
    /\ UNCHANGED <<variant, sock, chans, nchan, lock,
                   op, cret, err, why, failCh, writes>>

\* An acquisition that does not wait for the holder.
LockFree_NoWait == TRUE

\* `with self._io_lock:`  (uds 72, pipe 93): blocks while another holds it.
LockFree == lock = 0

SendLock(t) ==
    /\ ConnOnly
    /\ pc[t] = "s_lock"
    /\ LockFree
    /\ lock' = t
    /\ Goto(t, "s_whdr")
    /\ UNCHANGED <<variant, sock, chans, nchan, op,
                   cret, err, why, failCh, conns, writes>>

\* What an I/O call raises when the handle field is no usable channel.
\*   None:   uds: AttributeError ('NoneType' has no attribute 'sendall');
\*           pipe: win32file's TypeError, or pywintypes.error (invalid handle)
\*           when the binding takes None as the null handle.
\*   closed: uds: OSError EBADF; pipe: pywintypes.error.
\*   created (uds only): OSError ENOTCONN.
\* pywintypes.error is caught at pipe 122-126 and raised as ConnectionError;
\* the others reach the generic handler (uds 101-104, pipe 127-130) unchanged.
BadHandleErrors(h) ==
    IF h = 0
      THEN IF variant = "uds" THEN {"AttributeError"}
           ELSE {"TypeError", "ConnectionError"}
      ELSE IF variant = "uds" THEN {"OSError"} ELSE {"ConnectionError"}

Usable(h) == h # 0 /\ chans[h].st = "connected"

\* The exchange raises e at an I/O step on channel h (0: no channel was
\* involved); the handler then calls self.disconnect() and raises.
Fail(t, e, w, h) ==
    /\ err' = [err EXCEPT ![t] = e]
    /\ why' = [why EXCEPT ![t] = w]
    /\ failCh' = [failCh EXCEPT ![t] = h]
    /\ Goto(t, "d_chk")

\* uds 76 / 77: self.sock.sendall(header | payload);
\* pipe 97 / 98: win32file.WriteFile(self.pipe_handle, header | payload).
\* A broken pipe or a reset is BrokenPipeError / ConnectionResetError
\* (uds 97-100) or pywintypes.error (pipe 122-126): raised as ConnectionError.
SendWrite(t, from, to) ==
    /\ ConnOnly
    /\ pc[t] = from
    /\ \/ /\ Usable(sock)
          /\ chans' = [chans EXCEPT ![sock].wrote = TRUE]
          /\ writes' = [writes EXCEPT ![t] = @ + 1]
          /\ Goto(t, to)
          /\ UNCHANGED <<err, why, failCh>>
       \/ /\ Usable(sock)
          /\ Fail(t, "ConnectionError", "io", sock)
          /\ UNCHANGED <<chans, writes>>
       \/ /\ ~Usable(sock)
          /\ \E e \in BadHandleErrors(sock) : Fail(t, e, "nohandle", 0)
          /\ UNCHANGED <<chans, writes>>
    /\ UNCHANGED <<variant, sock, nchan, lock, op, cret, conns>>

SendWriteHeader(t) == SendWrite(t, "s_whdr", "s_wbody")

SendWriteBody(t) == SendWrite(t, "s_wbody", "s_rhdr")

\* uds 80: self._read_exact(8), which raises ConnectionError on a read of
\* zero bytes (uds 110-111) after any number of short reads, and a reset is
\* raised as ConnectionError (uds 97-100);
\* pipe 102-104: one ReadFile(self.pipe_handle, 8), then ConnectionError
\* when fewer than 8 bytes came, and pywintypes.error as ConnectionError.
SendReadHeader(t) ==
    /\ ConnOnly
    /\ pc[t] = "s_rhdr"
    /\ \/ /\ Usable(sock)
          /\ chans' = [chans EXCEPT ![sock].hdrBanner = chans[sock].banner]
          /\ Goto(t, "s_rbody")
          /\ UNCHANGED <<err, why, failCh>>
       \/ /\ Usable(sock)
          /\ Fail(t, "ConnectionError", "io", sock)
          /\ UNCHANGED chans
       \/ /\ ~Usable(sock)
          /\ \E e \in BadHandleErrors(sock) : Fail(t, e, "nohandle", 0)
          /\ UNCHANGED chans
    /\ UNCHANGED <<variant, sock, nchan, lock, op, cret, conns, writes>>

\* What a body cut short raises.  uds 84: _read_exact loops until the count
\* is reached and raises ConnectionError when the stream ends first.
\* pipe 109-112: one ReadFile, whose fewer bytes are decoded and parsed as
\* they are: json.loads raises JSONDecodeError.
ShortBodyError == IF variant = "uds" THEN "ConnectionError" ELSE "JSONDecodeError"

\* uds 84-95, pipe 109-120: read the body, decode, parse, look at "status",
\* return the result (releasing the lock on the way out of the with block).
SendReadBody(t) ==
    /\ ConnOnly
    /\ pc[t] = "s_rbody"
    /\ \/ /\ Usable(sock)                   \* a whole, well-formed reply
          /\ ~chans[sock].hdrBanner
          /\ \/ /\ Goto(t, "done")          \* uds 92-95: return
                /\ lock' = 0
                /\ UNCHANGED <<err, why, failCh>>
             \/ /\ Fail(t, "Exception", "status", 0)  \* uds 89-90
                /\ UNCHANGED lock
       \/ /\ Usable(sock)
          /\ \/ Fail(t, "ConnectionError", "io", sock)   \* reset, zero read
             \/ Fail(t, ShortBodyError, "short", sock)   \* body cut short
             \/ Fail(t, "JSONDecodeError", "decode", 0)  \* bytes that do not parse
          /\ UNCHANGED lock
       \/ /\ ~Usable(sock)
          /\ \E e \in BadHandleErrors(sock) : Fail(t, e, "nohandle", 0)
          /\ UNCHANGED lock
    /\ UNCHANGED <<variant, sock, chans, nchan, op, cret, conns, writes>>

\* A handler that raises with the lock still held.
ReleaseOnRaise_Kept == UNCHANGED lock

\* The handler's `raise` leaves the with block: the lock is released.
ReleaseOnRaise == lock' = 0

SendRaise(t) ==
    /\ ConnOnly
    /\ pc[t] = "s_raise"
    /\ ReleaseOnRaise
    /\ Goto(t, "done")
    /\ UNCHANGED <<variant, sock, chans, nchan, op,
                   cret, err, why, failCh, conns, writes>>

---------------------------------------------------------------------------

ConnNext ==
    \E t \in Callers :
        \/ Call(t)
        \/ Return(t)
        \/ ConnectCheck(t)
        \/ ConnectWait(t)
        \/ ConnectOpen(t)
        \/ ConnectConn(t)
        \/ ConnectBanner(t)
        \/ ConnectExcept(t)
        \/ DisconnectCheck(t)
        \/ DisconnectClose(t)
        \/ DisconnectClear(t)
        \/ SendCheck(t)
        \/ SendLock(t)
        \/ SendWriteHeader(t)
        \/ SendWriteBody(t)
        \/ SendReadHeader(t)
        \/ SendReadBody(t)
        \/ SendRaise(t)


---------------------------------------------------------------------------
(* The wire format: uds_connection.py 65-95, pipe_connection.py 85-120.    *)
(* Bytes are numbers 0..255.  Text is written here as a sequence of        *)
(* one-character strings and turned into its ASCII codes.                  *)

Ascii ==
    ("{" :> 123) @@ ("}" :> 125) @@ ("\"" :> 34) @@ ("\\" :> 92) @@
    (":" :> 58) @@ ("," :> 44) @@ (" " :> 32) @@
    ("a" :> 97) @@ ("d" :> 100) @@ ("e" :> 101) @@ ("g" :> 103) @@
    ("i" :> 105) @@ ("l" :> 108) @@ ("m" :> 109) @@ ("n" :> 110) @@
    ("o" :> 111) @@ ("p" :> 112) @@ ("r" :> 114) @@ ("s" :> 115) @@
    ("t" :> 116) @@ ("u" :> 117) @@ ("y" :> 121) @@ ("k" :> 107) @@
    ("x" :> 120) @@ ("c" :> 99)

Bytes(text) == [i \in 1..Len(text) |-> Ascii[text[i]]]

Quote     == Ascii["\""]
Backslash == Ascii["\\"]

\* A JSON value: a string (k = "str", its characters in s) or an object
\* (k = "obj", its members in order in m, each [key, val]).
JStr(text) == [k |-> "str", s |-> text, m |-> <<>>]
JObj(members) == [k |-> "obj", s |-> <<>>, m |-> members]
Member(key, val) == [key |-> key, val |-> val]

\* struct.pack(">Q", n): 8 bytes, most significant first  (uds 75, pipe 96).
Pow256(e) == IF e = 0 THEN 1 ELSE
             IF e = 1 THEN 256 ELSE
             IF e = 2 THEN 65536 ELSE
             IF e = 3 THEN 16777216 ELSE 0

\* Lengths here stay below 2^31, so bytes 1..4 of the header are zero.
Pack8(n) ==
    [i \in 1..8 |-> IF i >= 5 THEN (n \div Pow256(8 - i)) % 256 ELSE 0]

\* struct.unpack(">Q", b)[0]  (uds 81, pipe 106); -1 stands for a value of
\* 2^32 or more (one of the four high bytes is not zero).
Unpack8(b) ==
    IF \E i \in 1..4 : b[i] # 0 THEN -1
    ELSE b[5] * 16777216 + b[6] * 65536 + b[7] * 256 + b[8]

\* json.dumps of a string: quotes and backslashes are escaped.
RECURSIVE EscapeFrom(_, _)
EscapeFrom(text, i) ==
    IF i > Len(text) THEN <<>>
    ELSE (IF text[i] = Quote \/ text[i] = Backslash
            THEN <<Backslash, text[i]>> ELSE <<text[i]>>)
         \o EscapeFrom(text, i + 1)

DumpStr(text) == <<Quote>> \o EscapeFrom(text, 1) \o <<Quote>>

\* json.dumps with the default separators ", " and ": ".
RECURSIVE DumpVal(_)
RECURSIVE DumpMembers(_, _)
DumpMembers(members, i) ==
    IF i > Len(members) THEN <<>>
    ELSE (IF i > 1 THEN Bytes(<<",", " ">>) ELSE <<>>)
         \o DumpStr(members[i].key) \o Bytes(<<":", " ">>)
         \o DumpVal(members[i].val)
         \o DumpMembers(members, i + 1)

DumpVal(v) ==
    IF v.k = "str" THEN DumpStr(v.s)
    ELSE Bytes(<<"{">>) \o DumpMembers(v.m, 1) \o Bytes(<<"}">>)

Dumps(v) == DumpVal(v)

\* json.loads: a recursive-descent parse of strings and objects, white space
\* allowed between tokens.  Each parser returns [ok, val, pos]: pos is the
\* index after what it read.
ParseFail == [ok |-> FALSE, val |-> JStr(<<>>), pos |-> 0]

RECURSIVE SkipWs(_, _)
SkipWs(b, i) == IF i <= Len(b) /\ b[i] = Ascii[" "] THEN SkipWs(b, i + 1) ELSE i

\* The characters of a string literal from index i (after the opening quote).
RECURSIVE ParseChars(_, _, _)
ParseChars(b, i, acc) ==
    IF i > Len(b) THEN ParseFail
    ELSE IF b[i] = Quote THEN [ok |-> TRUE, val |-> JStr(acc), pos |-> i + 1]
    ELSE IF b[i] = Backslash
      THEN IF i + 1 <= Len(b) /\ (b[i + 1] = Quote \/ b[i + 1] = Backslash)
             THEN ParseChars(b, i + 2, Append(acc, b[i + 1]))
             ELSE ParseFail
    ELSE ParseChars(b, i + 1, Append(acc, b[i]))

ParseString(b, i) ==
    IF i <= Len(b) /\ b[i] = Quote THEN ParseChars(b, i + 1, <<>>) ELSE ParseFail

RECURSIVE ParseValue(_, _)
RECURSIVE ParseMembers(_, _, _)
\* Members from index i (at a key), acc the members read so far.
ParseMembers(b, i, acc) ==
    LET key == ParseString(b, SkipWs(b, i)) IN
    IF ~key.ok THEN ParseFail ELSE
    LET c == SkipWs(b, key.pos) IN
    IF ~(c <= Len(b) /\ b[c] = Ascii[":"]) THEN ParseFail ELSE
    LET val == ParseValue(b, c + 1) IN
    IF ~val.ok THEN ParseFail ELSE
    LET e == SkipWs(b, val.pos)
        got == Append(acc, Member(key.val.s, val.val)) IN
    IF e > Len(b) THEN ParseFail
    ELSE IF b[e] = Ascii["}"] THEN [ok |-> TRUE, val |-> JObj(got), pos |-> e + 1]
    ELSE IF b[e] = Ascii[","] THEN ParseMembers(b, e + 1, got)
    ELSE ParseFail

ParseValue(b, i) ==
    LET j == SkipWs(b, i) IN
    IF j > Len(b) THEN ParseFail
    ELSE IF b[j] = Quote THEN ParseString(b, j)
    ELSE IF b[j] = Ascii["{"]
      THEN LET n == SkipWs(b, j + 1) IN
           IF n <= Len(b) /\ b[n] = Ascii["}"]
             THEN [ok |-> TRUE, val |-> JObj(<<>>), pos |-> n + 1]
             ELSE ParseMembers(b, j + 1, <<>>)
    ELSE ParseFail

\* json.loads(text): the whole text must be one value.
Loads(b) ==
    LET r == ParseValue(b, 1) IN
    IF r.ok /\ SkipWs(b, r.pos) = Len(b) + 1 THEN r ELSE ParseFail

\* dict.get(key, default) on a parsed object.
RECURSIVE GetFrom(_, _, _, _)
GetFrom(members, key, default, i) ==
    IF i > Len(members) THEN default
    ELSE IF members[i].key = key /\ ~(\E j \in (i + 1)..Len(members) : members[j].key = key)
      THEN members[i].val
    ELSE GetFrom(members, key, default, i + 1)

Get(obj, key, default) == GetFrom(obj.m, key, default, 1)

---------------------------------------------------------------------------
(* One exchange on the wire, for both variants.                            *)

Variants == {"uds", "pipe"}

JNone == [k |-> "none", s |-> <<>>, m |-> <<>>]      \* Python's None

Returned(v) == [kind |-> "return", err |-> "", val |-> v]
Raised(e, v) == [kind |-> "raise", err |-> e, val |-> v]
Blocked == [kind |-> "blocked", err |-> "", val |-> JNone]
NoCall == [kind |-> "none", err |-> "", val |-> JNone]

Text(t) == JStr(Bytes(t))
Key(t) == Bytes(t)

\* uds 65-70, pipe 85-91: the object that is encoded.  "ping" carries empty
\* params whatever the caller passed; None and {} both give {}.
RequestObject(ctype, params) ==
    JObj(<< Member(Key(<<"t", "y", "p", "e">>), JStr(ctype)),
            Member(Key(<<"p", "a", "r", "a", "m", "s">>),
                   IF ctype = Bytes(<<"p", "i", "n", "g">>) THEN JObj(<<>>)
                   ELSE IF params = JNone \/ params = JObj(<<>>) THEN JObj(<<>>)
                   ELSE params) >>)

\* uds 75-77, pipe 96-98: header, then payload.
Frame(payload) == Pack8(Len(payload)) \o payload

\* The byte stream from the host: the chunks still to arrive, and whether
\* the host closes the channel after them.
RECURSIVE ChunksFrom(_, _, _)
ChunksFrom(data, from, splits) ==
    IF from >= Len(data) THEN <<>>
    ELSE LET later == {p \in splits : p > from /\ p < Len(data)}
             to == IF later = {} THEN Len(data)
                   ELSE CHOOSE p \in later : \A q \in later : p <= q
         IN <<SubSeq(data, from + 1, to)>> \o ChunksFrom(data, to, splits)

Deliver(frame, splits, cut) ==
    [frame |-> frame,
     chunks |-> ChunksFrom(SubSeq(frame, 1, cut), 0, splits),
     eof |-> cut < Len(frame)]

\* One read of at most n bytes: socket.recv(n) (uds 109) and
\* win32file.ReadFile(handle, n) (pipe 102, 109) both return what has
\* arrived, up to n bytes.
ReadSome(chunks, eof, n) ==
    IF n = 0 THEN [st |-> "data", data |-> <<>>, rest |-> chunks]
    ELSE IF chunks = <<>>
      THEN [st |-> IF eof THEN "eof" ELSE "blocked", data |-> <<>>, rest |-> chunks]
    ELSE LET c == Head(chunks)
             k == IF Len(c) < n THEN Len(c) ELSE n
         IN [st |-> "data", data |-> SubSeq(c, 1, k),
             rest |-> IF k < Len(c) THEN <<SubSeq(c, k + 1, Len(c))>> \o Tail(chunks)
                      ELSE Tail(chunks)]

\* uds 106-113: loop until count bytes are in; an empty chunk (the peer
\* closed) raises ConnectionError.
RECURSIVE ReadExact(_, _, _, _)
ReadExact(chunks, eof, count, data) ==
    IF Len(data) >= count THEN [st |-> "data", data |-> data, rest |-> chunks]
    ELSE LET r == ReadSome(chunks, eof, count - Len(data)) IN
         IF r.st # "data" THEN [st |-> r.st, data |-> data, rest |-> chunks]
         ELSE ReadExact(r.rest, eof, count, data \o r.data)

\* uds 80-84: header and body, each through _read_exact.
UdsReadFrame(d) ==
    LET h == ReadExact(d.chunks, d.eof, 8, <<>>) IN
    IF h.st # "data" THEN [st |-> h.st, data |-> <<>>]
    ELSE LET b == ReadExact(h.rest, d.eof, Unpack8(h.data), <<>>) IN
         IF b.st # "data" THEN [st |-> b.st, data |-> <<>>]
         ELSE [st |-> "data", data |-> b.data]

\* pipe 102-109: one ReadFile for the header ("short": fewer than 8 bytes
\* came), one ReadFile for the body, taken as it comes.
PipeReadFrame(d) ==
    LET h == ReadSome(d.chunks, d.eof, 8) IN
    IF h.st # "data" THEN [st |-> h.st, data |-> <<>>]
    ELSE IF Len(h.data) < 8 THEN [st |-> "short", data |-> <<>>]
    ELSE LET b == ReadSome(h.rest, d.eof, Unpack8(h.data)) IN
         IF b.st # "data" THEN [st |-> b.st, data |-> <<>>]
         ELSE [st |-> "data", data |-> b.data]

ReadFrame(v, d) == IF v = "uds" THEN UdsReadFrame(d) ELSE PipeReadFrame(d)

\* uds 86-95, pipe 111-120: decode, parse, status check, result.
Interpret(ctype, body) ==
    LET r == Loads(body) IN
    IF ~r.ok THEN Raised("JSONDecodeError", JNone)
    ELSE IF r.val.k # "obj" THEN Raised("AttributeError", JNone)
    ELSE IF Get(r.val, Key(<<"s", "t", "a", "t", "u", "s">>), JNone) = Text(<<"e", "r", "r", "o", "r">>)
      THEN Raised("Exception", Get(r.val, Key(<<"e", "r", "r", "o", "r">>), JNone))
    ELSE IF ctype = Bytes(<<"p", "i", "n", "g">>)
      THEN Returned(JObj(<<Member(Key(<<"m", "e", "s", "s", "a", "g", "e">>),
                                  Text(<<"p", "o", "n", "g">>))>>))
    ELSE Returned(Get(r.val, Key(<<"r", "e", "s", "u", "l", "t">>), JObj(<<>>)))

\* The read part of send_command().  A read on a channel the host closed:
\* recv() returns nothing and _read_exact raises ConnectionError (uds 111);
\* ReadFile raises pywintypes.error, re-raised as ConnectionError (pipe
\* 122-126).  A short header raises ConnectionError (pipe 103-104).
ReadResponse(v, ctype, d) ==
    LET f == ReadFrame(v, d) IN
    IF f.st \in {"eof", "short"} THEN Raised("ConnectionError", JNone)
    ELSE IF f.st = "blocked" THEN Blocked
    ELSE Interpret(ctype, f.data)

\* What the callers pass.
CommandTypes ==
    { Bytes(<<"p", "i", "n", "g">>), Bytes(<<"r", "e", "a", "d">>),
      Bytes(<<"a", "\"", "\\">>) }

ParamChoices ==
    { JNone, JObj(<<>>),
      JObj(<<Member(Key(<<"k">>), Text(<<"x">>))>>),
      JObj(<<Member(Key(<<"k", "\"">>), Text(<<"\\", "\"", "x">>))>>),
      JObj(<<Member(Key(<<"k">>), JObj(<<Member(Key(<<"a">>), Text(<<>>))>>)),
             Member(Key(<<"x">>), Text(<<"y">>))>>) }

\* What the host answers.  "echo" reads the request frame and sends its
\* params back as the result.
ReplyKinds == {"echo", "compact", "bare", "error", "garbage", "string"}

StatusKey == Key(<<"s", "t", "a", "t", "u", "s">>)
Success == Text(<<"s", "u", "c", "c", "e", "s", "s">>)

HostReply(kind, request) ==
    IF kind = "echo" THEN
        Dumps(JObj(<< Member(StatusKey, Success),
                      Member(Key(<<"r", "e", "s", "u", "l", "t">>),
                             Get(Loads(SubSeq(request, 9, Len(request))).val,
                                 Key(<<"p", "a", "r", "a", "m", "s">>), JNone)) >>))
    ELSE IF kind = "compact" THEN
        Bytes(<<"{", "\"", "s", "t", "a", "t", "u", "s", "\"", ":", "\"", "o", "k",
                "\"", ",", "\"", "r", "e", "s", "u", "l", "t", "\"", ":", "{", "\"",
                "k", "\"", ":", "\"", "x", "\"", "}", "}">>)
    ELSE IF kind = "bare" THEN Dumps(JObj(<<Member(StatusKey, Success)>>))
    ELSE IF kind = "error" THEN
        Dumps(JObj(<< Member(StatusKey, Text(<<"e", "r", "r", "o", "r">>)),
                      Member(Key(<<"e", "r", "r", "o", "r">>), Text(<<"x">>)) >>))
    ELSE IF kind = "garbage" THEN Bytes(<<"{", "\"", "s">>)
    ELSE Dumps(Text(<<"x">>))

\* Where the answer's bytes may be split (inside the header, between header
\* and body, inside the body), and after how many bytes the host stops.
SplitPoints == {3, 8, 10}
SplitChoices == {S \in SUBSET SplitPoints : Cardinality(S) <= MaxSplits}
CutPoints(frame) == {c \in {0, 3, 8, 10, Len(frame)} : c <= Len(frame)}

WireInit ==
    /\ wconn = [v \in Variants |-> FALSE]
    /\ wout = [v \in Variants |-> NoCall]
    /\ wreq = [type |-> <<>>, params |-> JNone]
    /\ wsent = [v \in Variants |-> <<>>]
    /\ wdeliv = [frame |-> <<>>, chunks |-> <<>>, eof |-> FALSE]

\* No call is running: none has written its request and waits for the
\* answer, none is stuck in a read that never returns.
WireIdle == \A v \in Variants : wout[v].kind \notin {"sent", "blocked"}

\* connect(): uds 26-48, pipe 33-70, with the banner arriving whole.
WireConnect ==
    /\ WireOnly
    /\ WireIdle
    /\ \E present \in BOOLEAN :
         wconn' = [v \in Variants |-> wconn[v] \/ present]
    /\ UNCHANGED <<wout, wreq, wsent, wdeliv>>

\* disconnect(): uds 50-56, pipe 72-78.
WireDisconnect ==
    /\ WireOnly
    /\ WireIdle
    /\ wconn' = [v \in Variants |-> FALSE]
    /\ UNCHANGED <<wout, wreq, wsent, wdeliv>>

\* send_command() up to its writes: uds 58-77, pipe 80-98.  No endpoint:
\* ConnectionError.  A write that fails (the host is gone): disconnect and
\* ConnectionError.
SendRequest(connected, frame, present, hostUp) ==
    IF ~connected /\ ~present
      THEN [conn |-> FALSE, out |-> Raised("ConnectionError", JNone), sent |-> <<>>]
    ELSE IF ~hostUp
      THEN [conn |-> FALSE, out |-> Raised("ConnectionError", JNone), sent |-> <<>>]
    ELSE [conn |-> TRUE, out |-> [kind |-> "sent", err |-> "", val |-> JNone],
          sent |-> frame]

WireSend ==
    /\ WireOnly
    /\ WireIdle
    /\ \E ctype \in CommandTypes, params \in ParamChoices :
         LET frame == Frame(Dumps(RequestObject(ctype, params))) IN
         \E present \in BOOLEAN, hostUp \in BOOLEAN :
           LET r == [v \in Variants |->
                       SendRequest(wconn[v], frame, present, hostUp)]
           IN /\ wconn' = [v \in Variants |-> r[v].conn]
              /\ wout' = [v \in Variants |-> r[v].out]
              /\ wsent' = [v \in Variants |-> r[v].sent]
              /\ wreq' = [type |-> ctype, params |-> params]
              /\ wdeliv' = [frame |-> <<>>, chunks |-> <<>>, eof |-> FALSE]

\* The rest of send_command(): uds 80-104, pipe 102-130.  The host answers
\* the variants alike; whatever is raised here tears the connection down.
WireReceive ==
    /\ WireOnly
    /\ \E v \in Variants : wout[v].kind = "sent"
    /\ \A v \in Variants : wout[v].kind # "blocked"
    /\ \E kind \in ReplyKinds, splits \in SplitChoices, eof \in BOOLEAN :
         LET answer == Frame(HostReply(kind, wsent[CHOOSE v \in Variants : wout[v].kind = "sent"]))
         IN \E cut \in CutPoints(answer) :
              LET d == [Deliver(answer, splits, cut) EXCEPT
                          !.eof = cut < Len(answer) /\ eof]
                  out == [v \in Variants |->
                            IF wout[v].kind = "sent"
                              THEN ReadResponse(v, wreq.type, d) ELSE wout[v]]
              IN /\ wout' = out
                 /\ wconn' = [v \in Variants |-> wconn[v] /\ out[v].kind # "raise"]
                 /\ wdeliv' = d
                 /\ UNCHANGED <<wreq, wsent>>

WireNext == WireConnect \/ WireDisconnect \/ WireSend \/ WireReceive

---------------------------------------------------------------------------
(* CustomToolService.execute_tool(): custom_tool_service.py 123-167, with  *)
(* get_tool_definition() 106-121 and _sync_all_unity_tools() 180-244.      *)

Projects == {"p1", "p2"}
Tools == {"t1", "t2"}

\* The project id computed for the discovered instance (compute_project_id,
\* 370-372), and the tools whose definition has requires_polling set.
InstanceProject == "p1"
RequiresPolling(tool) == tool = "t2"

sync_interval == 5      \* _sync_interval, seconds

\* What discovery finds at a sync: no instance, or one and the tools it lists
\* with auto_register on.
NoHost == [up |-> FALSE, tools |-> {}]
HostChoices == {NoHost} \cup {[up |-> TRUE, tools |-> T] : T \in SUBSET Tools}

NoResult == [kind |-> "none", success |-> FALSE, tool |-> "", project |-> ""]

\* What a definition says besides its name (description, parameters, ...):
\* two definitions of one name may differ in it.  The host lists HostBody.
Bodies == {"a", "b"}
HostBody == "a"

\* A text is the sequence of its characters.  str.lower() (77, 250).
LowerChar(ch) ==
    CASE ch = "A" -> "a" [] ch = "B" -> "b" [] ch = "H" -> "h"
      [] ch = "T" -> "t" [] ch = "P" -> "p" [] OTHER -> ch

Lower(text) == [i \in 1..Len(text) |-> LowerChar(text[i])]

\* An optional text: None or a str.
None == [some |-> FALSE, text |-> <<>>]
Str(text) == [some |-> TRUE, text |-> text]

\* Python's truth test of an optional text: None and "" are false.
Truthy(opt) == opt.some /\ opt.text # <<>>

\* __init__ (44-45): both maps start empty.
EmptyMap == [k \in {} |-> ""]

\* _is_registered (170-171).
is_registered_Never(map, project, name) == FALSE

is_registered(map, project, name) == <<project, name>> \in DOMAIN map

\* _register_tool with a new map in place of the old one.
register_tool_Afresh(map, project, tool) ==
    [k \in {<<project, tool.name>>} |-> tool.body]

\* _register_tool (173-175): the definition is stored under its name, in
\* place of what was there.
register_tool(map, project, tool) ==
    [k \in DOMAIN map \cup {<<project, tool.name>>} |->
       IF k = <<project, tool.name>> THEN tool.body ELSE map[k]]

\* The message of the response (78-80): how many were registered and, when
\* there are any, the replaced names joined by ", ".
RegMessage(registered, replaced) ==
    [count |-> Len(registered), suffix |-> replaced # <<>>, names |-> replaced]

NoMessage == [count |-> 0, suffix |-> FALSE, names |-> <<>>]

\* 67-73: the loop over payload.tools, from the i-th on.
RECURSIVE RegisterFrom(_, _, _, _)
RegisterFrom(acc, project, tools, i) ==
    IF i > Len(tools) THEN acc
    ELSE LET tool == tools[i] IN
         RegisterFrom(
           [map |-> register_tool(acc.map, project, tool),
            registered |-> Append(acc.registered, tool.name),
            replaced |-> IF is_registered(acc.map, project, tool.name)
                           THEN Append(acc.replaced, tool.name)
                         ELSE acc.replaced],
           project, tools, i + 1)

\* The route handler (57-86) on a payload: what the two maps become and the
\* response.  A payload that fails validation changes nothing (60-63).
register_tools(map, hashes, payload) ==
    IF ~payload.valid
      THEN [map |-> map, hashes |-> hashes,
            response |-> [status |-> 400, success |-> FALSE,
                          registered |-> <<>>, replaced |-> <<>>,
                          message |-> NoMessage]]
    ELSE LET done == RegisterFrom([map |-> map, registered |-> <<>>,
                                   replaced |-> <<>>],
                                  payload.project_id, payload.tools, 1)
             key == Lower(payload.project_hash.text)
         IN [map |-> done.map,
             hashes |-> IF Truthy(payload.project_hash)
                          THEN [h \in DOMAIN hashes \cup {key} |->
                                  IF h = key THEN payload.project_id
                                  ELSE hashes[h]]
                        ELSE hashes,
             response |-> [status |-> 200, success |-> TRUE,
                           registered |-> done.registered,
                           replaced |-> done.replaced,
                           message |-> RegMessage(done.registered,
                                                  done.replaced)]]

\* The payloads of the model: up to MaxBatch tools.
ToolEntries(bodies) == [name : Tools, body : bodies]

Batches(bodies, sizes) ==
    UNION {[1..n -> ToolEntries(bodies)] : n \in sizes}

PayloadHashes ==
    {None, Str(<<>>), Str(<<"a", "b">>), Str(<<"A", "b">>), Str(<<"b">>)}

Payloads(projects, bodies, sizes, hashes) ==
    [valid : {TRUE}, project_id : projects, project_hash : hashes,
     tools : Batches(bodies, sizes)]

BadPayload == [valid |-> FALSE, project_id |-> "", project_hash |-> None,
               tools |-> <<>>]

ExecInit ==
    /\ project_tools = EmptyMap
    /\ last_sync_time = 0
    /\ clock = sync_interval          \* the wall clock is far from the epoch
    /\ epc = "idle"
    /\ attempt = 1
    /\ ecall = [project |-> "", tool |-> ""]
    /\ definition = "none"
    /\ lookups = <<>>
    /\ sent = <<>>
    /\ result = NoResult

\* time.time() moves on.
Tick ==
    /\ ExecOnly
    /\ clock < MaxClock
    /\ clock' = clock + 1
    /\ UNCHANGED <<project_tools, last_sync_time, epc, attempt,
                   ecall, definition, lookups, sent, result>>

\* POST /register-tools (57-86) while execute_tool runs: every tool of the
\* payload is put in the map.
RegisterTools ==
    /\ ExecOnly
    /\ \E payload \in Payloads(Projects, {HostBody}, 1..MaxBatch, {None}) :
         project_tools' =
           register_tools(project_tools, hash_to_project, payload).map
    /\ UNCHANGED <<last_sync_time, clock, epc, attempt, ecall,
                   definition, lookups, sent, result>>

\* execute_tool(project_id, tool_name, ...) is called (123-134).
ExecCall ==
    /\ ExecOnly
    /\ epc = "idle"
    /\ \E project \in Projects, tool \in Tools :
         ecall' = [project |-> project, tool |-> tool]
    /\ epc' = "g_map"
    /\ UNCHANGED <<project_tools, last_sync_time, clock, attempt,
                   definition, lookups, sent, result>>

\* A lookup hit: get_tool_definition returns the tool, execute_tool goes on
\* to the dispatch (135, 141, 147).
Hit(step) ==
    /\ definition' = ecall.tool
    /\ lookups' = Append(lookups, step)
    /\ epc' = "dispatch"

\* 108-110 and 117-119: the map.
GetMap(at, miss) ==
    /\ ExecOnly
    /\ epc = at
    /\ IF is_registered(project_tools, ecall.project, ecall.tool)
         THEN Hit("map")
         ELSE /\ lookups' = Append(lookups, "map")
              /\ epc' = miss
              /\ UNCHANGED definition
    /\ UNCHANGED <<project_tools, last_sync_time, clock, attempt,
                   ecall, sent, result>>

GetCache_Hub == GetMap("g_map", "g_hub")

GetCache == GetMap("g_map", "g_sync")

GetRecheck == GetMap("g_recheck", "g_hub")

\* _sync_all_unity_tools(force) (180-244).  Throttled: nothing happens.
\* Otherwise the time is noted, the instance is asked for its tools, and what
\* it lists is registered under the instance's project.  A sync that fails
\* (181-244 catch everything) registers nothing.
\* 206-236: each tool the instance lists is registered under the
\* instance's project.
RegisterListed(map, listed) ==
    [k \in DOMAIN map \cup {<<InstanceProject, t>> : t \in listed} |->
       IF k[1] = InstanceProject /\ k[2] \in listed THEN HostBody ELSE map[k]]

Throttled_Never(force) == FALSE

Throttled(force) == ~force /\ clock - last_sync_time < sync_interval

Sync(force, step) ==
    IF Throttled(force)
      THEN /\ lookups' = Append(lookups, "throttled")
           /\ UNCHANGED <<project_tools, last_sync_time, sent>>
      ELSE /\ lookups' = Append(lookups, step)
           /\ last_sync_time' = clock
           /\ \E host \in HostChoices, ok \in BOOLEAN :
                /\ sent' = IF host.up THEN Append(sent, "list_csharp_tools")
                           ELSE sent
                /\ project_tools' =
                     IF ok THEN RegisterListed(project_tools, host.tools)
                     ELSE project_tools

\* 116: the just-in-time sync of get_tool_definition.
GetSync ==
    /\ ExecOnly
    /\ epc = "g_sync"
    /\ Sync(FALSE, "sync")
    /\ epc' = "g_recheck"
    /\ UNCHANGED <<clock, attempt, ecall, definition, result>>

\* 136-152: after the first miss, the forced sync; after the second, the
\* failure response.
AfterMiss_GiveUp == "fail"

AfterMiss == IF attempt = 1 THEN "force" ELSE "fail"

\* 121: the plugin hub.
GetHub ==
    /\ ExecOnly
    /\ epc = "g_hub"
    /\ \E known \in BOOLEAN :
         IF known
           THEN Hit("hub")
           ELSE /\ lookups' = Append(lookups, "hub")
                /\ epc' = AfterMiss
                /\ UNCHANGED definition
    /\ UNCHANGED <<project_tools, last_sync_time, clock, attempt,
                   ecall, sent, result>>

\* 138-139: the forced sync, then get_tool_definition once more.
ForceSync ==
    /\ ExecOnly
    /\ epc = "force"
    /\ Sync(TRUE, "force")
    /\ attempt' = 2
    /\ epc' = "g_map"
    /\ UNCHANGED <<clock, ecall, definition, result>>

\* 141-145: the failure response.
NotFound ==
    /\ ExecOnly
    /\ epc = "fail"
    /\ result' = [kind |-> "response", success |-> FALSE,
                  tool |-> ecall.tool, project |-> ecall.project]
    /\ epc' = "done"
    /\ UNCHANGED <<project_tools, last_sync_time, clock, attempt,
                   ecall, definition, lookups, sent>>

\* 147-166: the tool's command goes out through send_with_unity_instance;
\* what the transport raises leaves execute_tool; a response is normalized
\* (154-157) or handed to the poll loop (159-165).
Dispatch ==
    /\ ExecOnly
    /\ epc = "dispatch"
    /\ sent' = Append(sent, definition)
    /\ \E sendOk \in BOOLEAN, success \in BOOLEAN :
         result' = IF ~sendOk
                     THEN [NoResult EXCEPT !.kind = "raise"]
                   ELSE IF RequiresPolling(definition)
                     THEN [NoResult EXCEPT !.kind = "poll"]
                   ELSE [kind |-> "response", success |-> success,
                         tool |-> "", project |-> ""]
    /\ epc' = "done"
    /\ UNCHANGED <<project_tools, last_sync_time, clock, attempt,
                   ecall, definition, lookups>>

\* execute_tool has returned or raised; its locals are gone.
ExecReturn ==
    /\ ExecOnly
    /\ epc = "done"
    /\ epc' = "idle"
    /\ attempt' = 1
    /\ ecall' = [project |-> "", tool |-> ""]
    /\ definition' = "none"
    /\ lookups' = <<>>
    /\ sent' = <<>>
    /\ result' = NoResult
    /\ UNCHANGED <<project_tools, last_sync_time, clock>>

ExecNext ==
    \/ Tick
    \/ RegisterTools
    \/ ExecCall
    \/ GetCache
    \/ GetSync
    \/ GetRecheck
    \/ GetHub
    \/ ForceSync
    \/ NotFound
    \/ Dispatch
    \/ ExecReturn

----------------------------------------------------------------------------
(* POST /register-tools, a request per step.                               *)

NoRequest == BadPayload

NoResponse == [status |-> 0, success |-> FALSE, registered |-> <<>>,
               replaced |-> <<>>, message |-> NoMessage]

RegInit ==
    /\ hash_to_project = EmptyMap
    /\ reg_request = NoRequest
    /\ reg_response = NoResponse

\* 57-86: the handler runs from the validation to the response without an
\* await in between.
Register(payloads) ==
    /\ RegOnly
    /\ reg_response = NoResponse
    /\ \E payload \in payloads :
         LET out == register_tools(project_tools, hash_to_project, payload) IN
         /\ project_tools' = out.map
         /\ hash_to_project' = out.hashes
         /\ reg_request' = payload
         /\ reg_response' = out.response
    /\ UNCHANGED <<last_sync_time, clock, epc, attempt, ecall, definition,
                   lookups, sent, result>>

RegisterBatch ==
    Register(Payloads(Projects, Bodies, 0..MaxBatch, PayloadHashes) \cup {BadPayload})

\* The response has gone out (86).
RegisterDone ==
    /\ RegOnly
    /\ reg_response # NoResponse
    /\ reg_request' = NoRequest
    /\ reg_response' = NoResponse
    /\ UNCHANGED <<execVars, hash_to_project>>

RegNext == RegisterBatch \/ RegisterDone

----------------------------------------------------------------------------
(* resolve_project_id_for_unity_instance(), a call per step.               *)

\* A project id as text.  "" is a project id a payload may carry
\* (project_id: str).
IdText(project) ==
    CASE project = "p1" -> <<"p", "1">>
      [] project = "p2" -> <<"p", "2">>
      [] OTHER -> <<>>

\* str.startswith and str.partition("@").
StartsWith(text, prefix) ==
    /\ Len(prefix) <= Len(text)
    /\ SubSeq(text, 1, Len(prefix)) = prefix

HasAt(text) == \E i \in 1..Len(text) : text[i] = "@"

AtIndex(text) ==
    CHOOSE i \in 1..Len(text) :
      text[i] = "@" /\ \A j \in 1..(i - 1) : text[j] # "@"

Partition(text) ==
    IF HasAt(text)
      THEN [head |-> SubSeq(text, 1, AtIndex(text) - 1),
            tail |-> SubSeq(text, AtIndex(text) + 1, Len(text))]
    ELSE [head |-> text, tail |-> <<>>]

\* compute_project_id (370-372): the first 16 hex digits of the SHA-256 of
\* "name:path", in upper case; here the text it is the digest of, marked.
compute_project_id(name, path) == <<"#">> \o name \o <<":">> \o path

\* The instances discovery may find, and what discover_all_instances() does:
\* it raises, or hands back a list of them.
Instance(name, hash, path) ==
    [id |-> name \o <<"@">> \o hash, name |-> name, hash |-> hash,
     path |-> path]

Instances == {Instance(<<"n">>, <<"a", "b">>, <<"x">>),
              Instance(<<"m">>, <<"b">>, <<"y">>)}

Discoveries ==
    {[raises |-> TRUE, instances |-> <<>>]} \cup
    {[raises |-> FALSE, instances |-> l] :
       l \in {<<>>} \cup {<<i>> : i \in Instances}
             \cup {p \in Instances \X Instances : p[1] # p[2]}}

Tokens ==
    {None} \cup
    {Str(t) : t \in {<<>>, <<"@">>, <<"n", "@">>, <<"n", "@", "a">>,
                     <<"n", "@", "A">>, <<"n", "@", "a", "b">>,
                     <<"m", "@", "a", "b">>, <<"x", "@", "b">>,
                     <<"a", "b">>, <<"A", "b">>, <<"b">>, <<"a">>}}

\* get_project_id_for_hash (247-250).
get_project_id_for_hash(hashes, project_hash) ==
    IF project_hash = <<>> THEN None
    ELSE IF Lower(project_hash) \in DOMAIN hashes
      THEN Str(IdText(hashes[Lower(project_hash)]))
    ELSE None

\* 384-402: whether an instance is the one the token names.
Matches(inst, token) ==
    IF HasAt(token)
      THEN /\ inst.name = Partition(token).head
           /\ StartsWith(inst.hash, Partition(token).tail)
    ELSE inst.id = token \/ StartsWith(inst.hash, token)

\* next((inst for inst in instances if ...), None): the first match.
FirstMatch(instances, token) ==
    LET hits == {i \in 1..Len(instances) : Matches(instances[i], token)} IN
    IF hits = {} THEN 0
    ELSE CHOOSE i \in hits : \A j \in hits : i <= j

\* 412-417: the hash part, None when a composite token has nothing after
\* its "@".
HashPart_Whole(token) == Str(token)

HashPart(token) ==
    IF HasAt(token)
      THEN IF Partition(token).tail # <<>> THEN Str(Partition(token).tail)
           ELSE None
    ELSE Str(token)

\* 419-429: the table, then the lowercased hash part itself.
FromHash_IgnoreTable(hashes, hash_part) == Str(Lower(hash_part))

FromHash(hashes, hash_part) ==
    IF Truthy(get_project_id_for_hash(hashes, Lower(hash_part)))
      THEN get_project_id_for_hash(hashes, Lower(hash_part))
    ELSE Str(Lower(hash_part))

\* resolve_project_id_for_unity_instance (375-432).  What discovery raises
\* is caught (405-407).
resolve_project_id(token, discovery, hashes) ==
    IF ~token.some THEN None
    ELSE IF ~discovery.raises /\ FirstMatch(discovery.instances, token.text) # 0
      THEN LET target == discovery.instances[
                           FirstMatch(discovery.instances, token.text)]
           IN Str(compute_project_id(target.name, target.path))
    ELSE IF Truthy(HashPart(token.text))
      THEN FromHash(hashes, HashPart(token.text).text)
    ELSE None

NoResolve == [active |-> FALSE, token |-> None,
              discovery |-> [raises |-> FALSE, instances |-> <<>>]]

ResInit ==
    /\ res_call = NoResolve
    /\ resolved = None

\* The function runs without an await: one step from call to return value.
Resolve ==
    /\ ResOnly
    /\ ~res_call.active
    /\ \E token \in Tokens, discovery \in Discoveries :
         /\ res_call' = [active |-> TRUE, token |-> token,
                         discovery |-> discovery]
         /\ resolved' = resolve_project_id(token, discovery, hash_to_project)

\* The caller has taken the value.
ResolveReturn ==
    /\ ResOnly
    /\ res_call.active
    /\ res_call' = NoResolve
    /\ resolved' = None

\* A registration that records the project of a hash (76-77), here with no
\* tools in it; the empty project id is one a payload may carry.
RegisterHash ==
    Register(Payloads(Projects \cup {""}, Bodies, {0}, PayloadHashes))

ResNext == Resolve \/ ResolveReturn \/ RegisterHash \/ RegisterDone

----------------------------------------------------------------------------
(* list_registered_tools() and another caller of _sync_all_unity_tools(),  *)
(* one step per await.                                                     *)

\* "list": the task running list_registered_tools(); "other": a task whose
\* code calls _sync_all_unity_tools(force) (get_tool_definition 116 with
\* force False, execute_tool 138 with force True).
SyncCallers == {"list", "other"}

NoSyncCall == [force |-> FALSE, ran |-> FALSE, discovered |-> FALSE,
               asked |-> 0, listed |-> {}]

NoListResult == [kind |-> "none", legacy |-> <<>>, hub |-> <<>>, all |-> <<>>]

\* What discover_all_instances() does at a sync run: it raises, or finds the
\* instances there are (HostChoices).
SyncDiscoveries ==
    {[raises |-> TRUE, host |-> NoHost]} \cup
    {[raises |-> FALSE, host |-> h] : h \in HostChoices}

\* list(self._project_tools.get(project_id, {}).values()) (102): the
\* definitions registered for the project, here in the order of their names.
ToolOrder == <<"t1", "t2">>

RECURSIVE LegacyFrom(_, _, _)
LegacyFrom(map, project, i) ==
    IF i > Len(ToolOrder) THEN <<>>
    ELSE (IF is_registered(map, project, ToolOrder[i])
            THEN <<[name |-> ToolOrder[i],
                    body |-> map[<<project, ToolOrder[i]>>]]>>
          ELSE <<>>) \o LegacyFrom(map, project, i + 1)

\* What PluginHub.get_tools_for_project() may hand back (103): nothing, or
\* a tool, here one whose name a local tool may bear too.
HubLists == {<<>>, <<[name |-> "t1", body |-> "b"]>>}

ListInit ==
    /\ spc = [t \in SyncCallers |-> "idle"]
    /\ scall = [t \in SyncCallers |-> NoSyncCall]
    /\ lproject = ""
    /\ lresult = NoListResult

\* _sync_all_unity_tools(force) up to its first await (181-197).  Throttled:
\* it returns.  Otherwise the time is noted and discovery runs; with an
\* instance found, "list_csharp_tools" goes out to it and the coroutine
\* waits for the reply; with none found, or discovery raising (243-244),
\* it returns.
SyncStart(t, force) ==
    IF Throttled(force)
      THEN /\ scall' = [scall EXCEPT ![t] = [NoSyncCall EXCEPT !.force = force]]
           /\ spc' = [spc EXCEPT ![t] = "synced"]
           /\ UNCHANGED last_sync_time
      ELSE /\ last_sync_time' = clock
           /\ \E d \in SyncDiscoveries, ok \in BOOLEAN :
                /\ scall' = [scall EXCEPT ![t] =
                               [force |-> force, ran |-> TRUE,
                                discovered |-> TRUE,
                                asked |-> IF d.host.up THEN 1 ELSE 0,
                                listed |-> IF ok THEN d.host.tools ELSE {}]]
                /\ spc' = [spc EXCEPT ![t] =
                             IF d.host.up THEN "wait" ELSE "synced"]

\* 100: list_registered_tools(project_id) calls the sync, force not given.
ListStart ==
    /\ ListOnly
    /\ spc["list"] = "idle"
    /\ \E project \in Projects : lproject' = project
    /\ SyncStart("list", FALSE)
    /\ UNCHANGED <<project_tools, clock, epc, attempt, ecall, definition,
                   lookups, sent, result, lresult>>

\* Another task calls the sync, forced or not.
OtherStart ==
    /\ ListOnly
    /\ spc["other"] = "idle"
    /\ \E force \in BOOLEAN : SyncStart("other", force)
    /\ UNCHANGED <<project_tools, clock, epc, attempt, ecall, definition,
                   lookups, sent, result, lproject, lresult>>

\* 199-241: the instance's reply has come; the tools it lists are
\* registered (none when the reply is not a tool list or the command
\* raised).
SyncFinish ==
    /\ ListOnly
    /\ \E t \in SyncCallers :
         /\ spc[t] = "wait"
         /\ project_tools' = RegisterListed(project_tools, scall[t].listed)
         /\ spc' = [spc EXCEPT ![t] = "synced"]
    /\ UNCHANGED <<last_sync_time, clock, epc, attempt, ecall, definition,
                   lookups, sent, result, scall, lproject, lresult>>

\* 102-104: the project's local tools, then the hub's, in one list; what
\* the hub call raises leaves list_registered_tools().
ListRead ==
    /\ ListOnly
    /\ spc["list"] = "synced"
    /\ \/ \E hub \in HubLists :
            lresult' = [kind |-> "list",
                        legacy |-> LegacyFrom(project_tools, lproject, 1),
                        hub |-> hub,
                        all |-> LegacyFrom(project_tools, lproject, 1) \o hub]
       \/ lresult' = [NoListResult EXCEPT !.kind = "raise"]
    /\ spc' = [spc EXCEPT !["list"] = "done"]
    /\ UNCHANGED <<execVars, scall, lproject>>

\* list_registered_tools() has returned; its locals are gone.
ListReturn ==
    /\ ListOnly
    /\ spc["list"] = "done"
    /\ spc' = [spc EXCEPT !["list"] = "idle"]
    /\ scall' = [scall EXCEPT !["list"] = NoSyncCall]
    /\ lproject' = ""
    /\ lresult' = NoListResult
    /\ UNCHANGED execVars

\* The other caller's sync has returned.
OtherReturn ==
    /\ ListOnly
    /\ spc["other"] = "synced"
    /\ spc' = [spc EXCEPT !["other"] = "idle"]
    /\ scall' = [scall EXCEPT !["other"] = NoSyncCall]
    /\ UNCHANGED <<execVars, lproject, lresult>>

ListNext ==
    \/ Tick
    \/ ListStart
    \/ OtherStart
    \/ SyncFinish
    \/ ListRead
    \/ ListReturn
    \/ OtherReturn

----------------------------------------------------------------------------
(* _sync_all_unity_tools() over the instances discovery finds (180-244),   *)
(* one step per await.                                                     *)

SyncOnly == UNCHANGED <<connVars, wireVars, pollVars, reg_request,
                        reg_response, resVars, listVars, sendVars>>

\* A tool descriptor of a reply.  shape: "ok"; "noname" (no "name" key, 208);
\* "param_noname" (an entry of "parameters" without "name": p["name"] at 216
\* raises KeyError); "invalid" (a field value the models reject: 215-231
\* raise ValidationError).  auto: the auto_register key.
Descriptor(name, shape, auto) == [name |-> name, shape |-> shape, auto |-> auto]

Descriptors ==
    {Descriptor("", "noname", "absent")} \cup
    {Descriptor("t1", "ok", a) : a \in {"absent", "false"}} \cup
    {Descriptor("t2", "ok", a) : a \in {"true", "false"}} \cup
    {Descriptor("t1", sh, "absent") : sh \in {"param_noname", "invalid"}}

ToolLists == UNION {[1..n -> Descriptors] : n \in 0..MaxListed}

\* What the introspection command gives for an instance: it raises (an
\* exception, a timeout), or hands back something that is not a dict, a
\* dict without "tools", or a dict with a list of descriptors.
NoReply == [kind |-> "none", project |-> "", tools |-> <<>>]

\* The queries that fail: the command raised, or its reply is no tool list.
FailedReplies(project) ==
    {[kind |-> k, project |-> project, tools |-> <<>>] :
        k \in {"raise", "notdict", "notools"}}

SyncReplies(project) ==
    FailedReplies(project)
    \cup {[kind |-> "tools", project |-> project, tools |-> l] : l \in ToolLists}

\* compute_project_id(inst.name, inst.path) (203) of the i-th instance
\* discovered: two instances may belong to one project.
ProjectOfInstance(i) == IF i % 2 = 1 THEN "p1" ELSE "p2"

\* 206-236: the loop over response["tools"], from the i-th on: the map it
\* leaves and whether an exception left it.  A descriptor without a name is
\* passed over (208-209); the models are built (213-231), where a missing
\* parameter name raises KeyError, which 235 does not catch, and a rejected
\* value raises ValidationError, which it does; then the tool is registered
\* unless auto_register is false (233-234).
RECURSIVE RegisterDescriptors(_, _, _, _)
RegisterDescriptors(map, project, tools, i) ==
    IF i > Len(tools) THEN [map |-> map, raised |-> FALSE]
    ELSE LET d == tools[i] IN
         IF d.shape = "noname"
           THEN RegisterDescriptors(map, project, tools, i + 1)
         ELSE IF d.shape = "param_noname"
           THEN [map |-> map, raised |-> TRUE]
         ELSE IF d.shape = "invalid"
           THEN RegisterDescriptors(map, project, tools, i + 1)
         ELSE IF d.auto # "false"
           THEN RegisterDescriptors(
                  register_tool(map, project, [name |-> d.name,
                                               body |-> HostBody]),
                  project, tools, i + 1)
         ELSE RegisterDescriptors(map, project, tools, i + 1)

\* 191-241 on one instance's reply: the map it leaves and whether an
\* exception reached the handler of 238.
HandleReply(map, reply) ==
    IF reply.kind = "raise" THEN [map |-> map, raised |-> TRUE]
    ELSE IF reply.kind \in {"notdict", "notools"}
      THEN [map |-> map, raised |-> FALSE]
    ELSE RegisterDescriptors(map, reply.project, reply.tools, 1)

\* 238 without the handler: the exception goes on to 243.
CaughtAtInstance_Never(raised) == FALSE

\* 238: `except Exception` around one instance's query and reply.
CaughtAtInstance(raised) == raised

\* 243: `except Exception` around the whole run.
CaughtAtSync(raised) == raised

\* How the call ends when an exception has or has not left the loop.
SyncOutcome(raised) ==
    IF raised /\ ~CaughtAtSync(raised) THEN "raised" ELSE "returned"

NoSyncRun == [force |-> FALSE, ran |-> FALSE, discovered |-> FALSE, n |-> 0]

SyncInit ==
    /\ ypc = "idle"
    /\ ycall = NoSyncRun
    /\ yi = 1
    /\ yreply = NoReply
    /\ yqueried = {}
    /\ yfailed = {}
    /\ yout = "none"

\* 181-190: the throttle, the time noted, discovery.  Discovery raising is
\* caught at 243 and ends the run.
SyncBegin ==
    /\ SyncOnly
    /\ ypc = "idle"
    /\ \E force \in BOOLEAN :
         IF Throttled(force)
           THEN /\ ycall' = [NoSyncRun EXCEPT !.force = force]
                /\ ypc' = "done"
                /\ yout' = "returned"
                /\ UNCHANGED last_sync_time
           ELSE /\ last_sync_time' = clock
                /\ \/ /\ ycall' = [force |-> force, ran |-> TRUE,
                                    discovered |-> FALSE, n |-> 0]
                      /\ ypc' = "done"
                      /\ yout' = SyncOutcome(TRUE)
                   \/ \E n \in 0..MaxInstances :
                        /\ ycall' = [force |-> force, ran |-> TRUE,
                                     discovered |-> TRUE, n |-> n]
                        /\ ypc' = IF n = 0 THEN "done" ELSE "loop"
                        /\ yout' = IF n = 0 THEN "returned" ELSE "none"
    /\ UNCHANGED <<project_tools, clock, epc, attempt, ecall, definition,
                   lookups, sent, result, hash_to_project, yi, yreply,
                   yqueried, yfailed>>

\* 193-197: the introspection command goes to the instance the loop is at,
\* and the coroutine waits; the command's outcome is there when the event
\* loop resumes it.
SyncQuery ==
    /\ SyncOnly
    /\ ypc = "loop"
    /\ \E reply \in SyncReplies(ProjectOfInstance(yi)) : yreply' = reply
    /\ yqueried' = yqueried \cup {yi}
    /\ ypc' = "reply"
    /\ UNCHANGED <<execVars, hash_to_project, ycall, yi, yfailed, yout>>

\* 197-241: the coroutine is resumed with the outcome; the reply is
\* handled; what is raised on the way is caught at 238 and the loop goes
\* on, or would reach 243 and end the run.
SyncHandle ==
    /\ SyncOnly
    /\ ypc = "reply"
    /\ LET out == HandleReply(project_tools, yreply)
           on == ~out.raised \/ CaughtAtInstance(out.raised)
           last == yi = ycall.n
       IN /\ project_tools' = out.map
          /\ yfailed' = IF out.raised \/ yreply.kind # "tools"
                           THEN yfailed \cup {yi} ELSE yfailed
          /\ yi' = IF on THEN yi + 1 ELSE yi
          /\ ypc' = IF on /\ ~last THEN "loop" ELSE "done"
          /\ yout' = IF on /\ ~last THEN "none" ELSE SyncOutcome(~on)
    /\ yreply' = NoReply
    /\ UNCHANGED <<last_sync_time, clock, epc, attempt, ecall, definition,
                   lookups, sent, result, hash_to_project, ycall, yqueried>>

\* The sync has returned; its locals are gone.
SyncReturn ==
    /\ SyncOnly
    /\ ypc = "done"
    /\ ypc' = "idle"
    /\ ycall' = NoSyncRun
    /\ yi' = 1
    /\ yreply' = NoReply
    /\ yqueried' = {}
    /\ yfailed' = {}
    /\ yout' = "none"
    /\ UNCHANGED <<execVars, hash_to_project>>

\* POST /register-tools (57-86) while a sync runs, from the request to the
\* response.
SyncRegister ==
    /\ SyncOnly
    /\ \E payload \in Payloads({"p1"}, {"b"}, 0..1, {Str(<<"A", "b">>)})
                        \cup {BadPayload} :
         LET out == register_tools(project_tools, hash_to_project, payload) IN
         /\ project_tools' = out.map
         /\ hash_to_project' = out.hashes
    /\ UNCHANGED <<last_sync_time, clock, epc, attempt, ecall, definition,
                   lookups, sent, result, syncVars>>

SyncNext ==
    \/ SyncBegin
    \/ SyncQuery
    \/ SyncHandle
    \/ SyncReturn
    \/ SyncRegister

----------------------------------------------------------------------------
(* send_with_unity_instance(), a call per step.                            *)

\* A Python value of a call: None, a str, a dict or something else (a
\* list); v tells the strs and the dicts apart.
PyNone == [type |-> "None", v |-> ""]
PyStr(text) == [type |-> "str", v |-> text]
PyDict(tag) == [type |-> "dict", v |-> tag]
PyList == [type |-> "list", v |-> "[]"]

\* The values UNITY_MCP_TRANSPORT may have.
TransportSettings ==
    {None, Str(<<"s", "t", "d", "i", "o">>), Str(<<"h", "t", "t", "p">>),
     Str(<<"H", "T", "T", "P">>)}

\* _is_http_transport (19-20).
is_http_transport ==
    Lower(IF transport_env.some THEN transport_env.text
          ELSE <<"s", "t", "d", "i", "o">>) = <<"h", "t", "t", "p">>

\* The calls of the model: no positional argument, a command type ("" or a
\* name), or a command type and a parameter object; params may come as a
\* keyword instead (absent: "missing").
CommandValues == {PyStr(""), PyStr("ping")}
ParamValues == {PyNone, PyDict("{}"), PyDict("{a}"), PyList, PyStr("a")}
Missing == [type |-> "missing", v |-> ""]

SendCalls ==
    [instance : {PyNone, PyStr("inst")},
     args : {<<>>} \cup {<<c>> : c \in CommandValues}
              \cup (CommandValues \X ParamValues),
     kw_params : ParamValues \cup {Missing}]

NoSendCall == [instance |-> PyNone, args |-> <<>>, kw_params |-> Missing]

NoSendOut == [kind |-> "none", command_type |-> PyNone, params |-> PyNone,
              instance |-> PyNone]

\* 37-40: the parameter object the hub path takes, None turned into {}.
HubParams(call) ==
    LET given == IF Len(call.args) > 1 THEN call.args[2]
                 ELSE IF call.kw_params = Missing THEN PyNone
                 ELSE call.kw_params
    IN IF given = PyNone THEN PyDict("{}") ELSE given

\* 34-35: what the hub path refuses for want of arguments.
NoArguments(call) == Len(call.args) = 0

\* send_with_unity_instance (28-52) up to its await: what it raises, or
\* the request it hands to the hub (43-47) or to send_fn (50-52).
send_with_unity_instance(call) ==
    IF is_http_transport
      THEN IF NoArguments(call)
             THEN [NoSendOut EXCEPT !.kind = "ValueError"]
           ELSE IF HubParams(call).type # "dict"
             THEN [NoSendOut EXCEPT !.kind = "TypeError"]
           ELSE [kind |-> "hub", command_type |-> call.args[1],
                 params |-> HubParams(call), instance |-> call.instance]
    ELSE [kind |-> "send_fn",
          command_type |-> IF Len(call.args) > 0 THEN call.args[1]
                           ELSE Missing,
          params |-> IF Len(call.args) > 1 THEN call.args[2]
                     ELSE call.kw_params,
          instance |-> IF call.instance.type = "str" /\ call.instance.v # ""
                         THEN call.instance ELSE Missing]

SendInit ==
    /\ transport_env = None
    /\ tcall = NoSendCall
    /\ tout = NoSendOut

SendCall ==
    /\ SendOnly
    /\ tout = NoSendOut
    /\ \E call \in SendCalls :
         /\ tcall' = call
         /\ tout' = send_with_unity_instance(call)
    /\ UNCHANGED transport_env

\* The call has raised, or its request was answered.
SendReturn ==
    /\ SendOnly
    /\ tout # NoSendOut
    /\ tcall' = NoSendCall
    /\ tout' = NoSendOut
    /\ UNCHANGED transport_env

SendNext == SendCall \/ SendReturn

---------------------------------------------------------------------------
(* CustomToolService._poll_until_complete(): custom_tool_service.py        *)
(* 252-292, with _interpret_status() 294-324, _normalize_response()        *)
(* 326-358 and _safe_response() 360-365.  Times are in tenths of a second. *)

DEFAULT_POLL_INTERVAL == 10     \* _DEFAULT_POLL_INTERVAL = 1.0
MAX_POLL_SECONDS == 600         \* _MAX_POLL_SECONDS = 600

\* A response.  shape: "None", "dict" or "other" (not a dict: a string, a
\* list).  status: the dict's _mcp_status ("absent": no such key).  empty:
\* the dict has no keys.  hint: its _mcp_poll_interval: "absent", "bad" (not
\* a number: float() raises TypeError or ValueError), "huge" (an integer
\* beyond the range of a float: float() raises OverflowError) or "number",
\* then tenths holds it.  success: its success key
\* ("absent", "true", "false").  synthetic: made up by the loop after a
\* dispatch failed (284-292), not handed back by the transport.
Resp(shape, status, empty, hint, tenths, success) ==
    [shape |-> shape, status |-> status, empty |-> empty, hint |-> hint,
     tenths |-> tenths, success |-> success, synthetic |-> FALSE]

RespNone == Resp("None", "absent", FALSE, "absent", 0, "absent")

Pending(hint, tenths) == Resp("dict", "pending", FALSE, hint, tenths, "absent")

PendingReplies ==
    { RespNone,
      Resp("dict", "absent", TRUE, "absent", 0, "absent"),
      Pending("absent", 0), Pending("bad", 0), Pending("huge", 0),
      Pending("number", 0), Pending("number", 50), Pending("number", 600) }

FinalReplies ==
    { Resp("dict", "complete", FALSE, "absent", 0, "absent"),
      Resp("dict", "complete", FALSE, "absent", 0, "false"),
      Resp("dict", "error", FALSE, "absent", 0, "absent"),
      Resp("dict", "absent", FALSE, "absent", 0, "true"),
      Resp("dict", "done", FALSE, "absent", 0, "absent"),
      Resp("other", "absent", FALSE, "absent", 0, "absent") }

Replies == PendingReplies \cup FinalReplies

Min(a, b) == IF a < b THEN a ELSE b
Max(a, b) == IF a > b THEN a ELSE b

\* _interpret_status (294-324).  The hint goes through float() (311), which
\* raises TypeError or ValueError for what is not a number, caught at 312,
\* and OverflowError for an integer too large for a float, which 312 does
\* not catch: the call raises.
interpret_status(r) ==
    IF r.shape = "None"
      THEN [status |-> "pending", interval |-> DEFAULT_POLL_INTERVAL]
    ELSE IF r.shape # "dict"
      THEN [status |-> "final", interval |-> DEFAULT_POLL_INTERVAL]
    ELSE IF r.status = "absent"
      THEN [status |-> IF r.empty THEN "pending" ELSE "final",
            interval |-> DEFAULT_POLL_INTERVAL]
    ELSE IF r.status = "pending"
      THEN IF r.hint = "huge"
             THEN [status |-> "raise", interval |-> 0]
           ELSE [status |-> "pending",
                 interval |-> IF r.hint = "number"
                                THEN Max(1, Min(r.tenths, 50))
                              ELSE DEFAULT_POLL_INTERVAL]
    ELSE IF r.status \in {"complete", "error"}
      THEN [status |-> r.status, interval |-> DEFAULT_POLL_INTERVAL]
    ELSE [status |-> "final", interval |-> DEFAULT_POLL_INTERVAL]

\* _safe_response (360-365): a dict or None as it is, anything else wrapped
\* in a dict with its text as the message.
safe_response(r) ==
    IF r.shape \in {"dict", "None"} THEN r
    ELSE [r EXCEPT !.shape = "dict", !.status = "absent", !.empty = FALSE]

NoPollResult == [kind |-> "none", success |-> FALSE, data |-> RespNone]

\* _normalize_response (326-358): a dict gives success = its success key,
\* True when it has none (329-336); anything else gives success = False
\* (355-356).
normalize_response(r) ==
    [kind |-> "normalized",
     success |-> IF r.shape = "dict" THEN r.success # "false" ELSE FALSE,
     data |-> r]

\* A dict of parameters: a function from its keys to their values (texts).
SetItem(d, k, v) == [j \in DOMAIN d \cup {k} |-> IF j = k THEN v ELSE d[j]]

\* The params argument of execute_tool (128): None or a dict object.
NoParams == [given |-> FALSE, dict |-> EmptyMap]
Params(d) == [given |-> TRUE, dict |-> d]

StatusText == <<"s", "t", "a", "t", "u", "s">>
ProgressText == <<"p", "r", "o", "g">>
StartText == <<"s", "t", "a", "r", "t">>

\* The dict objects of one execution: the caller's, the one `params or {}`
\* makes (130) and the one dict(initial_params) makes (260).
Objects == {"caller", "fresh", "copy"}

\* One execute_tool() call whose definition was found: the tool, the params
\* argument and the definition's poll_action (None, "" or a name).
RunCall(tool, params, poll_action) ==
    [tool |-> tool, params |-> params, poll_action |-> poll_action]

NoRunCall == RunCall("", NoParams, None)

RunCalls ==
    { RunCall("t1", Params(EmptyMap), Str(StatusText)),
      RunCall("t1", Params([k \in {"x"} |-> <<"1">>]), None),
      RunCall("t2", NoParams, Str(<<>>)),
      RunCall("t2", Params([k \in {"action", "x"} |->
                              IF k = "action" THEN StartText ELSE <<"1">>]),
              Str(ProgressText)) }

\* _poll_until_complete() called on its own: no params, the default action.
DirectCall == RunCall("t2", NoParams, None)

NoCommand == [tool |-> "", params |-> EmptyMap]

\* 130: params = params or {}: the caller's object when it is a dict with
\* something in it, else a new empty dict.
params_or_empty(call) ==
    IF call.params.given /\ DOMAIN call.params.dict # {}
      THEN "caller" ELSE "fresh"

\* 260 without the copy: poll_params is initial_params itself.
dict_copy_Alias(object) == object

\* 260: dict(initial_params) is a new object.
dict_copy(object) == "copy"

\* 164 and 261: poll_action or "status".
action_or_status(poll_action) ==
    IF Truthy(poll_action) THEN poll_action.text ELSE StatusText

\* The object poll_params names.
poll_params == dict_copy(params_or_empty(pcall))

\* One more command was dispatched.
Dispatched(tool, params) ==
    /\ pcmd' = [tool |-> tool, params |-> params]
    /\ ndispatch' = Min(ndispatch + 1, 2)

\* 284-292 without the doubling and the bounds: the slept interval is handed
\* on as it is.
SyntheticPending_NoBackoff(interval) ==
    [Pending("number", interval) EXCEPT !.synthetic = TRUE]

\* 284-292: the response put in place of a failed dispatch.
SyntheticPending(interval) ==
    [Pending("number", Min(Max(interval * 2, DEFAULT_POLL_INTERVAL), 50))
       EXCEPT !.synthetic = TRUE]

PollInit ==
    /\ ppc = "idle"
    /\ pnow = 0
    /\ deadline = 0
    /\ response = RespNone
    /\ poll_interval = 0
    /\ last_raw = RespNone
    /\ presult = NoPollResult
    /\ pcall = NoRunCall
    /\ pheap = [o \in Objects |-> EmptyMap]
    /\ pcmd = NoCommand
    /\ ndispatch = 0

\* 260-264: the copy of the parameters with the action in it, the deadline,
\* and the loop is entered with the initial dispatch's response.
PollEnter(call, initial) ==
    /\ pheap' = [pheap EXCEPT ![dict_copy(params_or_empty(call))] =
                   SetItem(pheap[params_or_empty(call)], "action",
                           action_or_status(call.poll_action))]
    /\ response' = initial
    /\ last_raw' = initial
    /\ deadline' = pnow + 10 * MAX_POLL_SECONDS
    /\ ppc' = "top"

\* 259-264: the loop is entered with the initial dispatch's response.
PollStart ==
    /\ PollOnly
    /\ ppc = "idle"
    /\ pcall' = DirectCall
    /\ \E initial \in Replies : PollEnter(DirectCall, initial)
    /\ UNCHANGED <<pnow, poll_interval, presult, pcmd, ndispatch>>

\* 266-277: a terminal response is returned normalized; a pending one after
\* the deadline gives the timeout response; else the loop goes to sleep.  An
\* exception of _interpret_status (267) leaves the loop and the coroutine.
PollCheck ==
    /\ PollOnly
    /\ ppc = "top"
    /\ LET st == interpret_status(response) IN
       /\ poll_interval' = IF st.status = "raise" THEN poll_interval
                           ELSE st.interval
       /\ IF st.status = "raise"
            THEN /\ presult' = [kind |-> "raise", success |-> FALSE,
                                data |-> RespNone]
                 /\ ppc' = "done"
          ELSE IF st.status \in {"complete", "error", "final"}
            THEN /\ presult' = normalize_response(response)
                 /\ ppc' = "done"
          ELSE IF pnow > deadline
            THEN /\ presult' = [kind |-> "timeout", success |-> FALSE,
                                data |-> safe_response(response)]
                 /\ ppc' = "done"
          ELSE /\ ppc' = "sleep"
               /\ UNCHANGED presult
    /\ UNCHANGED <<pnow, deadline, response, last_raw, pcall, pheap, pcmd,
                   ndispatch>>

\* 279: asyncio.sleep(poll_interval).
PollSleep ==
    /\ PollOnly
    /\ ppc = "sleep"
    /\ pnow' = pnow + poll_interval
    /\ ppc' = "send"
    /\ UNCHANGED <<deadline, response, poll_interval, last_raw, presult,
                   pcall, pheap, pcmd, ndispatch>>

\* 281-292: the poll command is dispatched; it takes some time and hands
\* back a response or raises.
PollSendFrom(replies) ==
    /\ PollOnly
    /\ ppc = "send"
    /\ \E took \in {0, 10 * MaxSendTime} : pnow' = pnow + took
    /\ \/ \E r \in replies :
            /\ response' = r
            /\ last_raw' = r
       \/ /\ response' = SyntheticPending(poll_interval)
          /\ UNCHANGED last_raw
    /\ Dispatched(pcall.tool, pheap[poll_params])
    /\ ppc' = "top"
    /\ UNCHANGED <<deadline, poll_interval, presult, pcall, pheap>>

PollSend == PollSendFrom(Replies)

PollNext == PollStart \/ PollCheck \/ PollSleep \/ PollSend

\* The replies of the hosts execute_tool() is run against: every reply but
\* the pending one that asks for the shortest interval.
RunReplies == Replies \ {Pending("number", 0)}

\* execute_tool() is called and finds the tool's definition (123-141): the
\* caller's params object, when there is one, holds what the caller put in.
RunStart ==
    /\ PollOnly
    /\ ppc = "idle"
    /\ \E call \in RunCalls :
         /\ pcall' = call
         /\ pheap' = [pheap EXCEPT !["caller"] = call.params.dict]
    /\ ppc' = "dispatch"
    /\ UNCHANGED <<pnow, deadline, response, poll_interval, last_raw, presult,
                   pcmd, ndispatch>>

\* 147-166: the tool's command goes out with params; what the transport
\* raises leaves execute_tool; the response of a tool that needs no polling
\* is returned normalized (154-157), any other goes to the poll loop.
RunDispatch ==
    /\ PollOnly
    /\ ppc = "dispatch"
    /\ Dispatched(pcall.tool, pheap[params_or_empty(pcall)])
    /\ \E took \in {0, 10 * MaxSendTime} : pnow' = pnow + took
    /\ \/ /\ presult' = [kind |-> "raise", success |-> FALSE,
                          data |-> RespNone]
          /\ ppc' = "done"
          /\ UNCHANGED <<deadline, response, last_raw, pheap>>
       \/ \E initial \in RunReplies :
            IF RequiresPolling(pcall.tool)
              THEN /\ PollEnter(pcall, initial)
                   /\ UNCHANGED presult
              ELSE /\ response' = initial
                   /\ last_raw' = initial
                   /\ presult' = normalize_response(initial)
                   /\ ppc' = "done"
                   /\ UNCHANGED <<deadline, pheap>>
    /\ UNCHANGED <<poll_interval, pcall>>

\* 281-292 of an execution run by execute_tool().
RunPoll == PollSendFrom(RunReplies)

RunNext == RunStart \/ RunDispatch \/ PollCheck \/ PollSleep \/ RunPoll

---------------------------------------------------------------------------
(* The specifications.                                                     *)

Init == ConnInit /\ WireInit /\ ExecInit /\ PollInit /\ RegInit /\ ResInit /\ ListInit /\ SyncInit /\ SendInit

Next == ConnNext

Spec == Init /\ [][Next]_vars

InitWire == ConnInit /\ variant = "uds" /\ WireInit /\ ExecInit /\ PollInit /\ RegInit /\ ResInit /\ ListInit /\ SyncInit /\ SendInit

NextWire == WireNext

SpecWire == InitWire /\ [][NextWire]_vars

InitExec == ConnInit /\ variant = "uds" /\ WireInit /\ ExecInit /\ PollInit /\ RegInit /\ ResInit /\ ListInit /\ SyncInit /\ SendInit

NextExec == ExecNext

SpecExec == InitExec /\ [][NextExec]_vars

InitPoll == ConnInit /\ variant = "uds" /\ WireInit /\ ExecInit /\ PollInit /\ RegInit /\ ResInit /\ ListInit /\ SyncInit /\ SendInit

NextPoll == PollNext

SpecPoll == InitPoll /\ [][NextPoll]_vars

\* The event loop resumes the coroutine when what it awaits is done: the
\* sleep of 279 ends, the dispatch of 282 returns or raises, and the code
\* between two awaits runs to the next one.
PollFairness ==
    /\ WF_vars(PollCheck)
    /\ WF_vars(PollSleep)
    /\ WF_vars(PollSend)

SpecPollFair == SpecPoll /\ PollFairness

InitReg == ConnInit /\ variant = "uds" /\ WireInit /\ ExecInit /\ PollInit /\ RegInit /\ ResInit /\ ListInit /\ SyncInit /\ SendInit

NextReg == RegNext

SpecReg == InitReg /\ [][NextReg]_vars

InitRes == ConnInit /\ variant = "uds" /\ WireInit /\ ExecInit /\ PollInit /\ RegInit /\ ResInit /\ ListInit /\ SyncInit /\ SendInit

NextRes == ResNext

SpecRes == InitRes /\ [][NextRes]_vars

InitList == ConnInit /\ variant = "uds" /\ WireInit /\ ExecInit /\ PollInit /\ RegInit /\ ResInit /\ ListInit /\ SyncInit /\ SendInit

NextList == ListNext

SpecList == InitList /\ [][NextList]_vars

\* The transport setting is the process's: any of its values, for good.
InitSend ==
    /\ ConnInit /\ variant = "uds" /\ WireInit /\ ExecInit /\ PollInit
    /\ RegInit /\ ResInit /\ ListInit /\ SyncInit
    /\ transport_env \in TransportSettings
    /\ tcall = NoSendCall
    /\ tout = NoSendOut

NextSend == SendNext

SpecSend == InitSend /\ [][NextSend]_vars

InitSync == ConnInit /\ variant = "uds" /\ WireInit /\ ExecInit /\ PollInit /\ RegInit /\ ResInit /\ ListInit /\ SyncInit /\ SendInit

NextSync == SyncNext

SpecSync == InitSync /\ [][NextSync]_vars

InitRun == ConnInit /\ variant = "uds" /\ WireInit /\ ExecInit /\ PollInit /\ RegInit /\ ResInit /\ ListInit /\ SyncInit /\ SendInit

NextRun == RunNext

SpecRun == InitRun /\ [][NextRun]_vars

---------------------------------------------------------------------------
(* Properties of the Connection under concurrent callers (Spec).           *)

\* The I/O section of the with block: header write, body write, header
\* read, body read.
Exchanging(t) == op[t] = "send" /\ pc[t] \in {"s_whdr", "s_wbody", "s_rhdr", "s_rbody"}

\* Everything send_command runs with the lock held.
WithBlock == {"s_whdr", "s_wbody", "s_rhdr", "s_rbody",
              "d_chk", "d_close", "d_clear", "s_raise"}

\* C1: at most one exchange is in flight on a Connection: while one call is
\* between its header write and the end of its body read, no other call is
\* at any write or read of its own, and the call in the exchange holds the lock.
C1_OneExchangeInFlight ==
    \A t \in Callers :
        Exchanging(t) =>
            /\ lock = t
            /\ \A u \in Callers \ {t} : ~Exchanging(u)

\* An exchange is reading its response header while another caller waits
\* for the lock.
C1_Witness ==
    \E t, u \in Callers : t # u /\ pc[t] = "s_rhdr" /\ pc[u] = "s_lock"

\* C2: when a send_command exits after an I/O step of its exchange failed on
\* a channel, that channel has been closed and the handle field no longer
\* holds it.
C2_TornDownOnIoFailure ==
    \A t \in Callers :
        (pc[t] = "done" /\ op[t] = "send" /\ failCh[t] # 0) =>
            /\ chans[failCh[t]].st = "closed"
            /\ sock # failCh[t]

\* C3: every I/O failure of an exchange, the one of a caller that found the
\* connection torn down under it included, is raised as ConnectionError, and
\* a status "error" reply is raised as the domain error.
C3_ErrorKinds ==
    \A t \in Callers :
        (pc[t] = "done" /\ op[t] = "send") =>
            /\ why[t] \in {"io", "short", "nohandle"} => err[t] = "ConnectionError"
            /\ why[t] = "status" => err[t] = "Exception"

\* C4: a send_command calls connect() at most once; when that connect()
\* returned False the call raises ConnectionError having written nothing,
\* and a call that had to connect writes only after connect() returned True.
C4_OneConnectAttempt ==
    \A t \in Callers :
        /\ conns[t] <= 1
        /\ (op[t] = "send" /\ conns[t] = 1 /\ pc[t] \in WithBlock \cup {"s_lock"})
              => cret[t]
        /\ (op[t] = "send" /\ writes[t] > 0 /\ conns[t] = 1) => cret[t]
        /\ (op[t] = "send" /\ pc[t] = "done" /\ conns[t] = 1 /\ ~cret[t])
              => (err[t] = "ConnectionError" /\ why[t] = "absent" /\ writes[t] = 0)

\* After a teardown (a channel was closed) a send_command found the
\* connection disconnected, its one connect() failed and it has raised.
C4_Witness ==
    \E t \in Callers :
        /\ pc[t] = "done" /\ op[t] = "send" /\ conns[t] = 1 /\ ~cret[t]
        /\ \E c \in Channels : chans[c].st = "closed"

\* C5: the lock is held only by a thread inside the with block of
\* send_command: a call that has returned or raised does not hold it.
C5_LockReleasedOnExit ==
    \A t \in Callers :
        lock = t => (op[t] = "send" /\ pc[t] \in WithBlock)

\* One caller's exchange has failed and it has raised; another caller now
\* holds the lock.
C5_Witness ==
    \E t, u \in Callers :
        /\ t # u
        /\ pc[t] = "done" /\ op[t] = "send"
        /\ why[t] \in {"io", "short", "nohandle", "status", "decode"}
        /\ lock = u

\* C6: no request is written to, and no response header is read from, a
\* channel whose banner is still unread.
C6_BannerDrainedFirst ==
    \A c \in Channels :
        /\ chans[c].wrote => ~chans[c].banner
        /\ ~chans[c].hdrBanner

---------------------------------------------------------------------------
(* Properties of the bytes on the wire (SpecWire).                         *)

HeaderOf(frame) == SubSeq(frame, 1, 8)
BodyOf(frame) == SubSeq(frame, 9, Len(frame))

\* The chunks of the response add up to its whole frame.
RECURSIVE Concat(_)
Concat(chunks) == IF chunks = <<>> THEN <<>> ELSE Head(chunks) \o Concat(Tail(chunks))

Complete(d) == d.frame # <<>> /\ Concat(d.chunks) = d.frame

\* C7: every request written is the 8-byte big-endian length of the encoded
\* JSON body {type, params} followed by exactly that many body bytes;
\* decoding such a frame (the 8-byte length, then exactly that many bytes,
\* then the parse) gives the encoded object again; and a response is read
\* with the same framing: once its frame has arrived, in however many
\* chunks, the call ends as the frame's body says.
C7_FramingRoundTrip ==
    \A v \in Variants :
      /\ wsent[v] # <<>> =>
           LET obj == RequestObject(wreq.type, wreq.params)
               f == wsent[v]
           IN /\ Len(f) >= 8
              /\ Unpack8(HeaderOf(f)) = Len(BodyOf(f))
              /\ BodyOf(f) = Dumps(obj)
              /\ Loads(BodyOf(f)).ok /\ Loads(BodyOf(f)).val = obj
      /\ (wsent[v] # <<>> /\ wout[v].kind # "sent" /\ Complete(wdeliv)) =>
           /\ Unpack8(HeaderOf(wdeliv.frame)) = Len(BodyOf(wdeliv.frame))
           /\ wout[v] = Interpret(wreq.type, BodyOf(wdeliv.frame))

\* C8: the two variants, making the same calls against hosts that behave
\* alike, end every call alike and stay connected or not alike.
C8_VariantsAgree ==
    /\ wout["uds"] = wout["pipe"]
    /\ wconn["uds"] = wconn["pipe"]

---------------------------------------------------------------------------
(* Properties of execute_tool() (SpecExec).                                *)

\* execute_tool is at or past its "not found" return.
NotFoundPath == epc = "fail" \/ (epc = "done" /\ definition = "none")

\* The lookups of one get_tool_definition() that missed: the map, the
\* non-forced sync (run or throttled), the map again, the hub.
MissedAt(i) ==
    /\ lookups[i] = "map"
    /\ lookups[i + 1] \in {"sync", "throttled"}
    /\ lookups[i + 2] = "map"
    /\ lookups[i + 3] = "hub"

AllLookupsMissed ==
    /\ Len(lookups) = 9
    /\ MissedAt(1)
    /\ lookups[5] = "force"
    /\ MissedAt(6)

FailureResponse ==
    [kind |-> "response", success |-> FALSE,
     tool |-> ecall.tool, project |-> ecall.project]

\* A hit ends the lookups, and the tool's command is what goes out next.
HitIsDispatched ==
    /\ definition # "none" =>
         /\ epc \in {"dispatch", "done"}
         /\ definition = ecall.tool
         /\ lookups[Len(lookups)] \in {"map", "hub"}
    /\ (epc = "done" /\ definition # "none") =>
         /\ sent[Len(sent)] = ecall.tool
         /\ result # FailureResponse

\* C9, as amended: execute_tool returns the failure response (success false,
\* naming the tool and the project), without raising and without sending
\* the tool's command, only after every lookup missed in the order map,
\* non-forced sync and recheck, hub, forced sync, map, non-forced sync and
\* recheck, hub; the syncs on the way may send list_csharp_tools.  A lookup
\* that yields a definition leads to the dispatch of the command.
C9_NotFoundAfterAllLookups ==
    /\ NotFoundPath =>
         /\ AllLookupsMissed
         /\ \A i \in 1..Len(sent) : sent[i] = "list_csharp_tools"
         /\ epc = "done" => result = FailureResponse
    /\ HitIsDispatched

\* The call ended "not found" after both syncs ran and asked the instance.
C9_Witness ==
    /\ epc = "done"
    /\ result = FailureResponse
    /\ lookups = <<"map", "sync", "map", "hub", "force", "map", "throttled",
                   "map", "hub">>
    /\ sent = <<"list_csharp_tools", "list_csharp_tools">>

\* C9, as stated: the same, with no command at all sent to the host on the
\* way to the failure response.
C9_NotFoundSendsNothing ==
    /\ NotFoundPath =>
         /\ AllLookupsMissed
         /\ sent = <<>>
         /\ epc = "done" => result = FailureResponse
    /\ HitIsDispatched

---------------------------------------------------------------------------
(* Properties of the poll loop (SpecPoll).                                 *)

\* C10: the loop ends with the timeout response exactly when its response
\* is pending and the clock is past 600 s from its start, never before; the
\* timeout response has success false and carries the last response that
\* was received.
C10_TimeoutCarriesLastRaw ==
    ppc = "done" =>
      /\ presult.kind = "timeout" <=> interpret_status(response).status = "pending"
      /\ presult.kind = "timeout" =>
           /\ ~presult.success
           /\ pnow > 10 * MAX_POLL_SECONDS
           /\ presult.data = last_raw

\* C11: a poll dispatch that raises never ends the execution and is never
\* handed to the caller: the loop goes on with a synthetic pending response
\* in its place, no result carries that synthetic response, and when a later
\* poll is answered with status complete the result is that reply
\* normalized.
C11_PollFailureNeverSurfaced ==
    /\ (ppc = "top" /\ response.synthetic) =>
         interpret_status(response).status = "pending"
    /\ ppc = "done" =>
         /\ ~response.synthetic
         /\ ~presult.data.synthetic
    /\ (ppc = "done" /\ response.status = "complete") =>
         /\ response = last_raw
         /\ presult = normalize_response(last_raw)

\* C12: a normalized response whose status marker is "error" has success
\* false, whatever its success key says and also when it has none.
C12_ErrorMarkerGivesFailure ==
    (/\ ppc = "done"
     /\ presult.kind = "normalized"
     /\ presult.data.shape = "dict"
     /\ presult.data.status = "error") => ~presult.success

StatusMarker(r) == IF r.shape = "dict" THEN r.status ELSE "absent"

EmptyPayload(r) == r.shape = "None" \/ (r.shape = "dict" /\ r.empty)

\* C13: every response the loop holds is classified into one PollState by
\* the table: no marker and nothing in it, pending with 1.0 s; no marker and
\* something in it, final; marker "pending", pending with the hint clamped
\* to [0.1 s, 5.0 s], or 1.0 s when the hint is absent or is not a number;
\* "complete", complete; "error", error; any other marker, final.  Every
\* interval the loop sleeps lies in [0.1 s, 5.0 s].
C13_ClassificationTable ==
    LET r == response
        st == interpret_status(r)
        marker == StatusMarker(r)
    IN  /\ st.status \in {"pending", "complete", "error", "final"}
        /\ (marker = "absent" /\ EmptyPayload(r)) =>
              st = [status |-> "pending", interval |-> DEFAULT_POLL_INTERVAL]
        /\ (marker = "absent" /\ ~EmptyPayload(r)) => st.status = "final"
        /\ marker = "pending" =>
              /\ st.status = "pending"
              /\ r.hint = "number" => st.interval = Max(1, Min(r.tenths, 50))
              /\ r.hint = "huge" => st.interval \in {DEFAULT_POLL_INTERVAL, 50}
              /\ r.hint \in {"absent", "bad"} =>
                    st.interval = DEFAULT_POLL_INTERVAL
        /\ marker \in {"complete", "error"} => st.status = marker
        /\ marker \notin {"absent", "pending", "complete", "error"} =>
              st.status = "final"
        /\ ppc = "sleep" => poll_interval \in 1..50

\* The names at the positions in keep, in order.
RECURSIVE NamesAt(_, _, _)
NamesAt(names, keep, i) ==
    IF i > Len(names) THEN <<>>
    ELSE (IF i \in keep THEN <<names[i]>> ELSE <<>>) \o NamesAt(names, keep, i + 1)

\* C14: a batch registered into project P answers with registered = the
\* name of every incoming tool, in order, and replaced = the names that were
\* registered for P when their entry was processed (before the request, or
\* by an earlier entry of the same batch); every incoming definition is
\* stored, the last one of a name over the earlier ones, nothing else in the
\* registry changes, and the message counts the registered names and lists
\* the replaced ones when there are any.
C14_BatchRegistration ==
    [][(reg_response = NoResponse /\ reg_response'.status = 200) =>
        LET project == reg_request'.project_id
            tools == reg_request'.tools
            names == [i \in 1..Len(tools) |-> tools[i].name]
            held == {i \in 1..Len(tools) :
                       \/ <<project, names[i]>> \in DOMAIN project_tools
                       \/ \E j \in 1..(i - 1) : names[j] = names[i]}
            last == {i \in 1..Len(tools) :
                       \A j \in (i + 1)..Len(tools) : names[j] # names[i]}
            incoming == {<<project, names[i]>> : i \in 1..Len(tools)}
        IN  /\ reg_response'.success
            /\ reg_response'.registered = names
            /\ reg_response'.replaced = NamesAt(names, held, 1)
            /\ DOMAIN project_tools' = DOMAIN project_tools \cup incoming
            /\ \A i \in last :
                  project_tools'[<<project, names[i]>>] = tools[i].body
            /\ \A k \in DOMAIN project_tools \ incoming :
                  project_tools'[k] = project_tools[k]
            /\ reg_response'.message.count = Len(names)
            /\ reg_response'.message.suffix = (NamesAt(names, held, 1) # <<>>)
            /\ reg_response'.message.names = NamesAt(names, held, 1)
      ]_vars

\* A tool registered a second time, with another definition: it is
\* reported as registered and as replaced, and the new definition is stored.
C14_Witness ==
    /\ reg_response.status = 200
    /\ reg_request.tools = <<[name |-> "t1", body |-> "b"]>>
    /\ reg_response.registered = <<"t1">>
    /\ reg_response.replaced = <<"t1">>
    /\ reg_response.message.names = <<"t1">>
    /\ project_tools[<<reg_request.project_id, "t1">>] = "b"

\* The discovered instances that match a call's token (none when discovery
\* raises), and the token's lowercased hash part: what follows its first
\* "@", or the whole token.
ResFound(call) ==
    IF call.discovery.raises THEN {}
    ELSE {call.discovery.instances[i] :
            i \in {j \in 1..Len(call.discovery.instances) :
                     Matches(call.discovery.instances[j], call.token.text)}}

ResHashPart(call) ==
    Lower(IF HasAt(call.token.text) THEN Partition(call.token.text).tail
          ELSE call.token.text)

\* A step that is a call of the resolver.
ResolveStep == ~res_call.active /\ res_call'.active

\* C15 as stated: a non-null token resolves to the project id computed from
\* a matching discovered instance when there is one; otherwise to the
\* project id the hash table records for the lowercased hash part, when it
\* records one; otherwise to the lowercased hash part itself.
C15_ResolutionOrder ==
    [][(ResolveStep /\ res_call'.token.some) =>
         IF ResFound(res_call') # {}
           THEN \E inst \in ResFound(res_call') :
                  resolved' = Str(compute_project_id(inst.name, inst.path))
         ELSE IF ResHashPart(res_call') \in DOMAIN hash_to_project
           THEN resolved' =
                  Str(IdText(hash_to_project[ResHashPart(res_call')]))
         ELSE resolved' = Str(ResHashPart(res_call'))
      ]_vars

\* C15, amended: a non-null token resolves to the project id computed from
\* a matching discovered instance when there is one (discovery that raises
\* finds none); otherwise to null when the hash part is empty; otherwise to
\* the project id the hash table records for the lowercased hash part, when
\* it records a non-empty one; otherwise to the lowercased hash part itself.
C15_ResolutionOrderAmended ==
    [][(ResolveStep /\ res_call'.token.some) =>
         IF ResFound(res_call') # {}
           THEN \E inst \in ResFound(res_call') :
                  resolved' = Str(compute_project_id(inst.name, inst.path))
         ELSE IF ResHashPart(res_call') = <<>>
           THEN resolved' = None
         ELSE IF /\ ResHashPart(res_call') \in DOMAIN hash_to_project
                 /\ hash_to_project[ResHashPart(res_call')] # ""
           THEN resolved' =
                  Str(IdText(hash_to_project[ResHashPart(res_call')]))
         ELSE resolved' = Str(ResHashPart(res_call'))
      ]_vars

\* Discovery raises, the token is a hash in upper case, and the table
\* records a project for it in lower case: that project is the answer.
C15_Witness ==
    /\ res_call.active
    /\ res_call.token = Str(<<"A", "b">>)
    /\ res_call.discovery.raises
    /\ <<"a", "b">> \in DOMAIN hash_to_project
    /\ hash_to_project[<<"a", "b">>] = "p2"
    /\ resolved = Str(<<"p", "2">>)

\* C16 as stated: every non-null token resolves to a non-null identifier.
C16_NullOnlyForNullToken ==
    (res_call.active /\ res_call.token.some) => resolved.some

\* C16, amended: the answer is null only when the token is null, or when
\* its hash part is empty (the empty token, or a composite token with
\* nothing after its "@") and no discovered instance matches, discovery
\* raising included; every other answer is a non-empty identifier.
C16_NullOnlyWithoutHashPart ==
    res_call.active =>
      /\ resolved = None <=>
            \/ ~res_call.token.some
            \/ ResHashPart(res_call) = <<>> /\ ResFound(res_call) = {}
      /\ resolved.some => resolved.text # <<>>

\* The token "n@" with nothing discovered resolves to null.
C16_Witness ==
    /\ res_call.active
    /\ res_call.token = Str(<<"n", "@">>)
    /\ ~res_call.discovery.raises
    /\ res_call.discovery.instances = <<>>
    /\ resolved = None

\* C17: list_registered_tools() performs a sync run (discovery, and an
\* introspection command to the instance found) before it reads the
\* registry, however recently another run started, and returns the
\* project's local tools followed by the hub's, duplicates kept.
C17_ListAlwaysSyncs ==
    /\ spc["list"] \in {"synced", "done"} =>
         /\ scall["list"].ran
         /\ scall["list"].discovered
    /\ (spc["list"] = "done" /\ lresult.kind = "list") =>
         lresult.all = lresult.legacy \o lresult.hub

\* A step in which caller t calls _sync_all_unity_tools().
SyncStartStep(t) == spc[t] = "idle" /\ spc'[t] # "idle"

\* C18: a forced call always runs; a non-forced call made less than 5 s
\* after the previous run started does nothing: no discovery, no
\* introspection command, no wait, and the time of the last run stays; a
\* run notes its start as the time of the last run, and nothing else
\* changes that time: non-forced runs are at least 5 s after the run
\* before them, whatever the two callers' interleaving.
C18_ThrottleHolds ==
    [][/\ \A t \in SyncCallers :
            SyncStartStep(t) =>
              /\ scall'[t].force => scall'[t].ran
              /\ (~scall'[t].force /\ clock - last_sync_time < sync_interval) =>
                    /\ ~scall'[t].ran
                    /\ ~scall'[t].discovered
                    /\ scall'[t].asked = 0
                    /\ spc'[t] = "synced"
                    /\ last_sync_time' = last_sync_time
              /\ scall'[t].ran => last_sync_time' = clock
              /\ (scall'[t].ran /\ ~scall'[t].force) =>
                    clock - last_sync_time >= sync_interval
       /\ last_sync_time' # last_sync_time =>
            \E t \in SyncCallers : SyncStartStep(t) /\ scall'[t].ran
      ]_vars

\* A non-forced call that did nothing while the other caller's run, started
\* less than 5 s ago, still waits for the instance's reply.
C18_Witness ==
    /\ spc["list"] = "wait"
    /\ scall["list"].ran
    /\ spc["other"] = "synced"
    /\ ~scall["other"].force
    /\ ~scall["other"].ran
    /\ clock - last_sync_time < sync_interval

\* What the running get_tool_definition() looked up so far: the entries of
\* the log after the forced sync, if there was one.
RECURSIVE SinceForce(_)
SinceForce(log) ==
    IF log = <<>> THEN <<>>
    ELSE IF log[Len(log)] = "force" THEN <<>>
    ELSE Append(SinceForce(SubSeq(log, 1, Len(log) - 1)), log[Len(log)])

\* C20: get_tool_definition() looks in the map first and, with the tool
\* there, returns it without a sync and without the hub; only after a miss
\* it calls the non-forced sync (throttled less than 5 s after the last run)
\* and looks in the map again; only after that second miss it asks the hub.
C20_MapThenSyncThenHub ==
    [][\A x \in {"map", "sync", "throttled", "hub"} :
         lookups' = Append(lookups, x) =>
           LET before == SinceForce(lookups) IN
           /\ definition = "none"
           /\ x = "map" =>
                /\ \/ before = <<>>
                   \/ /\ Len(before) = 2
                      /\ before[1] = "map"
                      /\ before[2] \in {"sync", "throttled"}
                /\ sent' = sent
                /\ last_sync_time' = last_sync_time
                /\ IF is_registered(project_tools, ecall.project, ecall.tool)
                     THEN definition' = ecall.tool
                   ELSE definition' = "none"
           /\ x \in {"sync", "throttled"} =>
                /\ before = <<"map">>
                /\ definition' = "none"
                /\ x = "throttled" <=> clock - last_sync_time < sync_interval
                /\ x = "throttled" => sent' = sent
           /\ x = "hub" =>
                /\ Len(before) = 3
                /\ before[1] = "map"
                /\ before[2] \in {"sync", "throttled"}
                /\ before[3] = "map"
      ]_vars

\* The tool was missing twice, a sync ran in between, and the hub had it.
C20_Witness ==
    /\ lookups = <<"map", "sync", "map", "hub">>
    /\ definition = ecall.tool
    /\ epc = "dispatch"

\* The parameter object a call gives: the second positional argument, else
\* the params keyword, else none.
GivenParams(call) ==
    IF Len(call.args) > 1 THEN call.args[2]
    ELSE IF call.kw_params = Missing THEN PyNone
    ELSE call.kw_params

\* C19: with the transport setting selecting the hub, a call with no
\* command type, with an empty command type, or with a parameter object
\* that is not a dict raises a ValueError or TypeError and nothing goes to
\* the hub; what goes to the hub has a non-empty command type and a dict
\* for its parameters (the empty dict when none were given).
C19_MalformedCallsRejected ==
    (is_http_transport /\ tout # NoSendOut) =>
      LET malformed ==
            \/ Len(tcall.args) = 0
            \/ tcall.args[1] = PyStr("")
            \/ GivenParams(tcall).type \notin {"None", "dict"}
      IN  /\ malformed => tout.kind \in {"ValueError", "TypeError"}
          /\ ~malformed =>
                /\ tout.kind = "hub"
                /\ tout.command_type = tcall.args[1]
                /\ tout.params.type = "dict"

---------------------------------------------------------------------------
(* The sleep interval after a failed poll dispatch.                        *)

\* A pass of the loop head (266-277) that ends in the sleep of 279.
PollToSleep == ppc = "top" /\ ppc' = "sleep"

\* C21: when the loop goes to sleep on the response put in place of a failed
\* dispatch, the interval it sleeps is min(max(2 * p, 1.0), 5.0), p being the
\* interval slept before that dispatch; it is never below p and never above
\* 5.0; when it goes to sleep on a pending reply of the host that carries a
\* number, the interval is that number brought into 0.1 .. 5.0.
C21_BackoffAfterFailure ==
    [][PollToSleep =>
         /\ response.synthetic =>
              /\ poll_interval' = Min(Max(2 * poll_interval, 10), 50)
              /\ poll_interval' >= poll_interval
              /\ poll_interval' <= 50
         /\ (~response.synthetic /\ response.status = "pending"
                /\ response.hint = "number") =>
              poll_interval' = Max(1, Min(response.tenths, 50))]_vars

\* The loop is about to sleep the capped interval after a failed dispatch
\* that followed an earlier pending reply of the host.
C21_Witness ==
    /\ ppc = "sleep"
    /\ response.synthetic
    /\ poll_interval = 50
    /\ last_raw.status = "pending"

---------------------------------------------------------------------------
(* Properties of execute_tool() from its dispatch on (SpecRun).            *)

Terminal(r) == interpret_status(r).status \in {"complete", "error", "final"}

\* The poll command of the running call: its tool, and its parameters as
\* the caller gave them with the action put in.
PollCommand ==
    [tool |-> pcall.tool,
     params |-> SetItem(pcall.params.dict, "action",
                        action_or_status(pcall.poll_action))]

\* C22: the loop sleeps and dispatches a poll command only for a tool whose
\* definition requires polling and while the latest response is classified
\* pending; the command dispatched then is the tool's name with a copy of
\* the initial parameters plus action = poll_action or "status"; a tool
\* that requires no polling ends after exactly one dispatch, with the
\* response normalized when the dispatch returned one; once the response
\* of a polling tool is classified complete, error or final, the execution
\* ends with that response normalized; the caller's params object is never
\* changed.
C22_PollOnlyWhilePending ==
    /\ [](/\ ppc \in {"sleep", "send"} =>
               /\ RequiresPolling(pcall.tool)
               /\ interpret_status(response).status = "pending"
          /\ (ppc = "done" /\ ~RequiresPolling(pcall.tool)) =>
               /\ ndispatch = 1
               /\ presult.kind # "raise" =>
                    presult = normalize_response(response)
          /\ (ppc = "done" /\ RequiresPolling(pcall.tool)
                /\ Terminal(response)) =>
               presult = normalize_response(response)
          /\ ppc # "idle" => pheap["caller"] = pcall.params.dict)
    /\ [][(ppc = "send" /\ ppc' = "top") => pcmd' = PollCommand]_vars
    /\ [][(ppc = "top" /\ Terminal(response)) => ppc' = "done"]_vars
    /\ [][ppc = "done" => UNCHANGED <<pcmd, ndispatch>>]_vars

\* A polling tool called with parameters that hold an action of their own:
\* a poll command went out with the definition's action, the execution
\* ended on a terminal reply, the caller's dict still holds its action.
C22_Witness ==
    /\ ppc = "done"
    /\ ndispatch = 2
    /\ presult.kind = "normalized"
    /\ pcall.params.given
    /\ pcmd.params["action"] = ProgressText
    /\ pheap["caller"]["action"] = StartText

---------------------------------------------------------------------------
(* Termination of the poll loop (SpecPollFair).                            *)

\* The loop returned a Result: a normalized response or the timeout one.
LoopReturned == ppc = "done" /\ presult.kind \in {"normalized", "timeout"}

\* C23: every execution of the poll loop eventually returns one Result,
\* whatever pending replies and failed dispatches it meets.
C23_LoopReturnsResult == (ppc = "top") ~> LoopReturned

---------------------------------------------------------------------------
(* Properties of the sync over several instances (SpecSync).               *)

\* The step that handles an instance's reply.
HandleStep == ypc = "reply" /\ ypc' # "reply"

WellFormed(d) == d.shape = "ok"

\* After the step the tool of descriptor d is in the map under project.
RegisteredAfter(project, d) ==
    /\ <<project, d.name>> \in DOMAIN project_tools'
    /\ project_tools'[<<project, d.name>>] = HostBody

\* C24: a failure at one instance (the command raises or times out, the
\* reply is no dict with a tools list, or handling the reply raises) does
\* not end the run: when the run is over every discovered instance was
\* queried, a reply whose descriptors are all well formed has its
\* auto-registered tools in the map whatever happened at the instances
\* before, and the call never raises.
C24_FailuresAreIsolated ==
    /\ [](/\ yout # "raised"
          /\ yfailed \subseteq yqueried
          /\ (ypc = "done" /\ ycall.discovered) => yqueried = 1..ycall.n)
    /\ [][(/\ HandleStep
            /\ yreply.kind = "tools"
            /\ \A j \in 1..Len(yreply.tools) : WellFormed(yreply.tools[j]))
           => \A j \in 1..Len(yreply.tools) :
                 yreply.tools[j].auto # "false" =>
                   RegisteredAfter(yreply.project, yreply.tools[j])]_vars

\* A run over two instances is over: the first failed, the second was
\* queried all the same and its tool is in the map.
C24_Witness ==
    /\ ypc = "done"
    /\ yout = "returned"
    /\ ycall.n = 2
    /\ yfailed = {1}
    /\ yqueried = {1, 2}
    /\ is_registered(project_tools, ProjectOfInstance(2), "t2")

\* The entry of a tool name under a project is what it was before the step.
EntryKept(project, name) ==
    /\ <<project, name>> \in DOMAIN project_tools' <=>
         <<project, name>> \in DOMAIN project_tools
    /\ <<project, name>> \in DOMAIN project_tools =>
         project_tools'[<<project, name>>] = project_tools[<<project, name>>]

\* C25: when a reply's descriptors are handled, a malformed one is passed
\* over and the others are not affected: every well-formed descriptor of
\* the reply whose auto_register is absent or true is registered under the
\* instance's project, and a name that no such descriptor bears is not
\* registered by the step.
C25_MalformedDescriptorSkipped ==
    [][(HandleStep /\ yreply.kind = "tools") =>
         /\ \A j \in 1..Len(yreply.tools) :
              (WellFormed(yreply.tools[j]) /\ yreply.tools[j].auto # "false")
                => RegisteredAfter(yreply.project, yreply.tools[j])
         /\ \A name \in Tools :
              (~\E j \in 1..Len(yreply.tools) :
                  /\ WellFormed(yreply.tools[j])
                  /\ yreply.tools[j].name = name
                  /\ yreply.tools[j].auto # "false")
                => EntryKept(yreply.project, name)]_vars

\* C26: no step removes an entry of the tool map or of the hash table: a
\* (project, tool name) entry and a hash entry that are there stay there,
\* with the same or a new value; a rejected batch leaves both maps as they
\* are, and so do a sync whose discovery fails and a query that fails.
C26_RegistryOnlyGrows ==
    /\ [][/\ DOMAIN project_tools \subseteq DOMAIN project_tools'
          /\ DOMAIN hash_to_project \subseteq DOMAIN hash_to_project'
          /\ (ypc = "idle" /\ ypc' = "done") =>
               UNCHANGED <<project_tools, hash_to_project>>
          /\ (HandleStep /\ yreply.kind # "tools") =>
               UNCHANGED <<project_tools, hash_to_project>>]_vars
    /\ [](LET out == register_tools(project_tools, hash_to_project,
                                    BadPayload)
          IN /\ out.map = project_tools
             /\ out.hashes = hash_to_project
             /\ \A project \in Projects :
                  \A r \in FailedReplies(project) :
                    HandleReply(project_tools, r).map = project_tools)

\* A sync whose only query failed is over, after a batch put a tool and a
\* hash in the registry: both are still there.
C26_Witness ==
    /\ ypc = "done"
    /\ ycall.n = 1
    /\ yfailed = {1}
    /\ is_registered(project_tools, "p1", "t1")
    /\ project_tools[<<"p1", "t1">>] = "b"
    /\ DOMAIN hash_to_project # {}

---------------------------------------------------------------------------
(* The channels of a Connection (Spec).                                    *)

\* The channels that were opened and not closed.
OpenChannels == {c \in Channels : chans[c].st \in {"created", "connected"}}

\* C27: a Connection has at most one open channel at any time: every
\* channel that was opened and not closed is the one the handle field
\* holds, and a channel is opened only while the handle field is empty.
C27_OneOpenChannel ==
    /\ [](/\ Cardinality(OpenChannels) <= 1
          /\ \A c \in OpenChannels : sock = c)
    /\ [][nchan' # nchan => sock = 0]_vars

=============================================================================
